---- MODULE Spec2Model ----
(***************************************************************************)
(* The Transform algebra of local_carla_api.py: the closed-form 4x4        *)
(* matrix, its snapshot-compare cache with the lazily memoised inverse,    *)
(* point transformation, composition, inversion and the "ahead" query;     *)
(* then the basis vectors of a Rotation, the Quaternion, the BoundingBox,  *)
(* get_matrix under concurrent callers, and the arithmetic and comparison  *)
(* operators of the vectors.                                               *)
(*                                                                         *)
(* Numbers.  Lengths are fixed-point integers: one world unit is Unit      *)
(* length units, so that the 0.001 floor of is_within_distance_ahead is    *)
(* the integer DistFloor.  Euler angles are whole degrees, multiples of    *)
(* 90, for which sin and cos are exactly -1, 0 or 1; the entries of a      *)
(* rotation block are therefore integers and the entries of a translation  *)
(* column are lengths.  Angles in radians (Vector2D.get_angle) are         *)
(* integers in units of 1/10000 rad.                                       *)
(***************************************************************************)
EXTENDS Integers, Sequences, FiniteSets, TLC

VARIABLES t, ret

vars == <<t, ret>>

\* 0.001, the floor of is_within_distance_ahead, in length units.
DistFloor == 2
\* One world unit in length units (a length unit is 0.0005).
Unit == 1000 * DistFloor
\* math.pi in units of 1/10000 rad.
Pi == 31416
\* The literal 90.0 that is_within_distance_ahead compares the angle with,
\* read as the code reads it: a number of radians, in units of 1/10000 rad.
AheadLimit == 900000

\* Python's None.
None == <<>>

Abs(v) == IF v < 0 THEN -v ELSE v

\* math.cos(math.radians(deg)) and math.sin(math.radians(deg)) for a
\* multiple of 90 degrees.
CosDeg(deg) ==
    CASE deg % 360 = 0 -> 1
      [] deg % 360 = 90 -> 0
      [] deg % 360 = 180 -> -1
      [] deg % 360 = 270 -> 0

SinDeg(deg) ==
    CASE deg % 360 = 0 -> 0
      [] deg % 360 = 90 -> 1
      [] deg % 360 = 180 -> 0
      [] deg % 360 = 270 -> -1

\* np.clip left out: the value as it is.
Clip_off(v, lo, hi) == v

\* np.clip(v, lo, hi)
Clip(v, lo, hi) == IF v < lo THEN lo ELSE IF v > hi THEN hi ELSE v

\* math.degrees(math.asin(v)) and math.degrees(math.acos(v)) for v in {-1, 0, 1}.
AsinDeg(v) == 90 * v

AcosDeg(v) == 90 * (1 - v)

----------------------------------------------------------------------------
(* Vector3D, Location, Vector2D, Rotation *)

Vector3D(x, y, z) == [type |-> "Vector3D", x |-> x, y |-> y, z |-> z]

Location(x, y, z) == [type |-> "Location", x |-> x, y |-> y, z |-> z]

Vector2D(x, y) == [type |-> "Vector2D", x |-> x, y |-> y]

Rotation(pitch, yaw, roll) == [pitch |-> pitch, yaw |-> yaw, roll |-> roll]

\* type(self)(self.x, self.y, self.z): a new object of the same type.
Vector3D_copy(v) == [type |-> v.type, x |-> v.x, y |-> v.y, z |-> v.z]

Rotation_copy(r) == Rotation(r.pitch, r.yaw, r.roll)

\* type(v), for the objects of the model: a vector carries its class (a
\* Location is not a Vector3D), a Rotation has a pitch, a Transform has a
\* matrix, and None has no attribute.
TypeOf(v) ==
    IF "type" \in DOMAIN v
    THEN v.type
    ELSE IF "pitch" \in DOMAIN v
         THEN "Rotation"
         ELSE IF "matrix" \in DOMAIN v THEN "Transform" ELSE "NoneType"

Vector3D___ne__(a, b) ==
    IF TypeOf(b) = TypeOf(a)
    THEN a.x # b.x \/ a.y # b.y \/ a.z # b.z
    ELSE TRUE

Rotation___ne__(a, b) ==
    IF TypeOf(b) = TypeOf(a)
    THEN a.pitch # b.pitch \/ a.yaw # b.yaw \/ a.roll # b.roll
    ELSE TRUE

Vector3D_as_vector_2D(v) == Vector2D(v.x, v.y)

Vector2D___sub__(a, b) == Vector2D(a.x - b.x, a.y - b.y)

----------------------------------------------------------------------------
(* 4x4 matrices: a matrix is a 4-tuple of rows, m[i][j] is numpy's m[i-1, j-1] *)

Identity4 ==
    << <<1, 0, 0, 0>>, <<0, 1, 0, 0>>, <<0, 0, 1, 0>>, <<0, 0, 0, 1>> >>

\* np.dot(a, b) of two 4x4 matrices
MatMul(a, b) ==
    [i \in 1..4 |-> [j \in 1..4 |->
        a[i][1] * b[1][j] + a[i][2] * b[2][j] + a[i][3] * b[3][j] + a[i][4] * b[4][j]]]

\* The indices 1..4 without i, in order.
Drop(i) ==
    CASE i = 1 -> <<2, 3, 4>>
      [] i = 2 -> <<1, 3, 4>>
      [] i = 3 -> <<1, 2, 4>>
      [] i = 4 -> <<1, 2, 3>>

\* The determinant of the 3x3 submatrix of m on rows r and columns c.
Det3(m, r, c) ==
    m[r[1]][c[1]] * (m[r[2]][c[2]] * m[r[3]][c[3]] - m[r[2]][c[3]] * m[r[3]][c[2]])
    - m[r[1]][c[2]] * (m[r[2]][c[1]] * m[r[3]][c[3]] - m[r[2]][c[3]] * m[r[3]][c[1]])
    + m[r[1]][c[3]] * (m[r[2]][c[1]] * m[r[3]][c[2]] - m[r[2]][c[2]] * m[r[3]][c[1]])

Cofactor(m, i, j) ==
    (IF (i + j) % 2 = 0 THEN 1 ELSE -1) * Det3(m, Drop(i), Drop(j))

\* The determinant of a 4x4 matrix, by expansion along the first row.
Det(m) ==
    m[1][1] * Cofactor(m, 1, 1) + m[1][2] * Cofactor(m, 1, 2)
    + m[1][3] * Cofactor(m, 1, 3) + m[1][4] * Cofactor(m, 1, 4)

\* A transpose in the place of the inverse.
MatInv_transpose(m) == [i \in 1..4 |-> [j \in 1..4 |-> m[j][i]]]

\* np.linalg.inv(m): the adjugate over the determinant.  Every matrix the
\* model builds has determinant 1 or -1, so the division is exact; a
\* singular matrix has no inverse (numpy raises LinAlgError), modelled as None.
MatInv(m) ==
    LET d == Det(m)
    IN IF d = 0
       THEN None
       ELSE [i \in 1..4 |-> [j \in 1..4 |-> Cofactor(m, j, i) \div d]]

\* .astype(np.float32): a float32 holds an integer of magnitude up to 2^24
\* exactly and rounds a larger one to a multiple of a power of two.
Float32(v) ==
    IF Abs(v) <= 16777216
    THEN v
    ELSE LET q == IF Abs(v) <= 2 * 16777216 THEN 2 ELSE 4
         IN (IF v < 0 THEN -1 ELSE 1) * (((Abs(v) + (q \div 2)) \div q) * q)

----------------------------------------------------------------------------
(* Transform *)

Transform__create_matrix(location, rotation) ==
    LET cy == CosDeg(rotation.yaw)
        sy == SinDeg(rotation.yaw)
        cr == CosDeg(rotation.roll)
        sr == SinDeg(rotation.roll)
        cp == CosDeg(rotation.pitch)
        sp == SinDeg(rotation.pitch)
    IN << <<cp * cy, cy * sp * sr - sy * cr, (-cy) * sp * cr - sy * sr, location.x>>,
          <<sy * cp, sy * sp * sr + cy * cr, (-sy) * sp * cr + cy * sr, location.y>>,
          <<sp,      (-cp) * sr,             cp * cr,                   location.z>>,
          <<0, 0, 0, 1>> >>

\* Transform(location, rotation): the else branch of __init__ and its tail.
Transform___init__(location, rotation) ==
    LET matrix == Transform__create_matrix(location, rotation)
    IN [location |-> location,
        rotation |-> rotation,
        matrix |-> matrix,
        forward_vector |-> Vector3D(matrix[1][1], matrix[2][1], matrix[3][1]),
        _inv_matrix |-> None,
        _location |-> Vector3D_copy(location),
        _rotation |-> Rotation_copy(rotation)]

\* The staleness test of get_matrix.
Transform_is_stale(self) ==
    \/ Vector3D___ne__(self._location, self.location)
    \/ Rotation___ne__(self._rotation, self.rotation)

\* get_matrix without the staleness test: the cached values are returned.
Transform_get_matrix_no_rebuild(self, inverse) ==
    LET s2 == IF inverse /\ self._inv_matrix = None
              THEN [self EXCEPT !._inv_matrix = MatInv(self.matrix)]
              ELSE self
    IN [self |-> s2, ret |-> IF inverse THEN s2._inv_matrix ELSE s2.matrix]

\* get_matrix that drops the cached inverse at every call.
Transform_get_matrix_forgetful(self, inverse) ==
    LET s1 == [self EXCEPT
                 !._location = Vector3D_copy(self.location),
                 !._rotation = Rotation_copy(self.rotation),
                 !.matrix = Transform__create_matrix(self.location, self.rotation),
                 !._inv_matrix = None]
        s2 == IF inverse /\ s1._inv_matrix = None
              THEN [s1 EXCEPT !._inv_matrix = MatInv(s1.matrix)]
              ELSE s1
    IN [self |-> s2, ret |-> IF inverse THEN s2._inv_matrix ELSE s2.matrix]

\* get_matrix that rebuilds the matrix and keeps the cached inverse.
Transform_get_matrix_keep_inverse(self, inverse) ==
    LET s1 == IF Transform_is_stale(self)
              THEN [self EXCEPT
                      !._location = Vector3D_copy(self.location),
                      !._rotation = Rotation_copy(self.rotation),
                      !.matrix = Transform__create_matrix(self.location, self.rotation)]
              ELSE self
        s2 == IF inverse /\ s1._inv_matrix = None
              THEN [s1 EXCEPT !._inv_matrix = MatInv(s1.matrix)]
              ELSE s1
    IN [self |-> s2, ret |-> IF inverse THEN s2._inv_matrix ELSE s2.matrix]

\* get_matrix(inverse): the object after the call and the value returned.
Transform_get_matrix(self, inverse) ==
    LET s1 == IF Transform_is_stale(self)
              THEN [self EXCEPT
                      !._location = Vector3D_copy(self.location),
                      !._rotation = Rotation_copy(self.rotation),
                      !.matrix = Transform__create_matrix(self.location, self.rotation),
                      !._inv_matrix = None]
              ELSE self
        s2 == IF inverse /\ s1._inv_matrix = None
              THEN [s1 EXCEPT !._inv_matrix = MatInv(s1.matrix)]
              ELSE s1
    IN [self |-> s2, ret |-> IF inverse THEN s2._inv_matrix ELSE s2.matrix]

\* __transform without the homogeneous 1: the translation is lost.
Transform___transform_no_translation(point, matrix) ==
    LET row(i) == matrix[i][1] * point[1] + matrix[i][2] * point[2]
                  + matrix[i][3] * point[3]
    IN <<Float32(row(1)), Float32(row(2)), Float32(row(3))>>

\* __transform(points, matrix) for the one point transform_point passes:
\* append the homogeneous 1, multiply, keep the first three rows as float32.
Transform___transform(point, matrix) ==
    LET h == <<point[1], point[2], point[3], 1>>
        row(i) == matrix[i][1] * h[1] + matrix[i][2] * h[2]
                  + matrix[i][3] * h[3] + matrix[i][4] * h[4]
    IN <<Float32(row(1)), Float32(row(2)), Float32(row(3))>>

Transform_transform_point(self, point) ==
    LET g == Transform_get_matrix(self, FALSE)
    IN [self |-> g.self, ret |-> Transform___transform(point, g.ret)]

Transform_inverse_transform_point(self, point) ==
    LET g == Transform_get_matrix(self, TRUE)
    IN [self |-> g.self, ret |-> Transform___transform(point, g.ret)]

\* np.clip(num / (sign * math.cos(pitch_r)), -1, 1), the argument of the
\* acos and asin of the matrix branch, where sp is the clipped sine of the
\* pitch.  With sp = 0 the cosine is 1.  With sp = 1 or -1 the cosine
\* math.cos(math.asin(sp)) is a rounding residue (6.1e-17, never 0): a
\* numerator of size 1 gives a huge quotient that clips to its sign, and a
\* numerator that is 0 up to rounding gives a quotient that depends on the
\* rounding of both, so every clipped value is possible.
ClippedQuotient(num, sp, sign) ==
    IF sp = 0
    THEN {Clip(num * sign, -1, 1)}
    ELSE IF num = 0
         THEN {-1, 0, 1}
         ELSE {IF num * sign > 0 THEN 1 ELSE -1}

\* Transform(matrix=matrix): the matrix branch of __init__ and its tail.
\* The set of objects the construction can give.
Transform___init___matrix(matrix) ==
    LET location == Location(matrix[1][4], matrix[2][4], matrix[3][4])
        forward_vector == Vector3D(matrix[1][1], matrix[2][1], matrix[3][1])
        sp == Clip(forward_vector.z, -1, 1)
        yaws == {AcosDeg(q) : q \in ClippedQuotient(forward_vector.x, sp, 1)}
        rolls == {AsinDeg(q) : q \in ClippedQuotient(matrix[3][2], sp, -1)}
    IN {[location |-> location,
         rotation |-> Rotation(AsinDeg(sp), yaw, roll),
         matrix |-> matrix,
         forward_vector |-> forward_vector,
         _inv_matrix |-> None,
         _location |-> Vector3D_copy(location),
         _rotation |-> Rotation(AsinDeg(sp), yaw, roll)] : yaw \in yaws, roll \in rolls}

\* self * other: the objects the product can be.
Transform___mul__(self, other) ==
    Transform___init___matrix(MatMul(self.matrix, other.matrix))

\* inverse_transform that asks get_matrix for the matrix, not its inverse.
Transform_inverse_transform_forward(self) ==
    LET g == Transform_get_matrix(self, FALSE)
    IN [self |-> g.self, rets |-> Transform___init___matrix(g.ret)]

\* inverse_transform(): the object after the call and the objects the
\* result can be.
Transform_inverse_transform(self) ==
    LET g == Transform_get_matrix(self, TRUE)
    IN [self |-> g.self, rets |-> Transform___init___matrix(g.ret)]

----------------------------------------------------------------------------
(* Vector2D.get_angle and the "ahead" query *)

\* math.atan2(y, x) in units of 1/10000 rad, for the eight compass
\* directions and the zero vector.
Atan2(y, x) ==
    CASE y = 0 /\ x >= 0 -> 0
      [] y = 0 /\ x < 0 -> Pi
      [] x = 0 /\ y > 0 -> Pi \div 2
      [] x = 0 /\ y < 0 -> -(Pi \div 2)
      [] x > 0 /\ y = x -> Pi \div 4
      [] x < 0 /\ y = -x -> (3 * Pi) \div 4
      [] x < 0 /\ y = x -> -((3 * Pi) \div 4)
      [] x > 0 /\ y = -x -> -(Pi \div 4)

Vector2D_get_angle(self, other) ==
    LET angle == Atan2(self.y, self.x) - Atan2(other.y, other.x)
    IN IF angle > Pi
       THEN angle - 2 * Pi
       ELSE IF angle < -Pi
            THEN angle + 2 * Pi
            ELSE angle

\* magnitude(): the Euclidean norm, held as its square so that it is exact.
Vector2D_magnitude(v) == [sq |-> v.x * v.x + v.y * v.y]

\* magnitude < c and magnitude > c for a norm held as its square.
NormLess(m, c) == c > 0 /\ m.sq < c * c

NormGreater(m, c) == c < 0 \/ m.sq > c * c

Transform_get_angle_and_magnitude(self, target_loc) ==
    LET target_vec == Vector2D___sub__(Vector3D_as_vector_2D(target_loc),
                                       Vector3D_as_vector_2D(self.location))
        magnitude == Vector2D_magnitude(target_vec)
        forward_vector == Vector2D(CosDeg(self.rotation.yaw), SinDeg(self.rotation.yaw))
    IN [angle |-> IF NormGreater(magnitude, 0)
                  THEN Vector2D_get_angle(target_vec, forward_vector)
                  ELSE 0,
        magnitude |-> magnitude]

\* is_within_distance_ahead with the distance test before the floor test.
Transform_is_within_distance_ahead_swapped(self, dst_loc, max_distance) ==
    LET am == Transform_get_angle_and_magnitude(self, dst_loc)
    IN IF NormGreater(am.magnitude, max_distance)
       THEN FALSE
       ELSE IF NormLess(am.magnitude, DistFloor)
            THEN TRUE
            ELSE am.angle < AheadLimit

\* is_within_distance_ahead without the distance test.
Transform_is_within_distance_ahead_no_max(self, dst_loc, max_distance) ==
    LET am == Transform_get_angle_and_magnitude(self, dst_loc)
    IN IF NormLess(am.magnitude, DistFloor)
       THEN TRUE
       ELSE am.angle < AheadLimit

Transform_is_within_distance_ahead(self, dst_loc, max_distance) ==
    LET am == Transform_get_angle_and_magnitude(self, dst_loc)
    IN IF NormLess(am.magnitude, DistFloor)
       THEN TRUE
       ELSE IF NormGreater(am.magnitude, max_distance)
            THEN FALSE
            ELSE am.angle < AheadLimit

----------------------------------------------------------------------------
(* The inputs of the model *)


Yaws == {-90}

Rotations ==
    {Rotation(0, 0, 0), Rotation(0, -90, 0), Rotation(90, 0, 0), Rotation(0, 90, 90)}

\* The values of an in-place change of location.x are the multiples of
\* 3 world units up to MaxShift of them.
MaxShift == 1

Xs == {3 * Unit * k : k \in 0..MaxShift}

Locations == {Location(0, 0, 0), Location(3 * Unit, 0, 0), Location(0, -Unit, 2 * Unit)}

Points == {<<10 * Unit, 0, 0>>, <<-Unit, 2 * Unit, 5 * Unit>>}

\* The right operands of a product: a fresh Transform, and one whose
\* location was reassigned after its construction and not read since.
Others ==
    {Transform___init__(Location(Unit, 0, -Unit), Rotation(0, 90, 0)),
     [Transform___init__(Location(0, 0, 0), Rotation(0, 0, 90))
        EXCEPT !.location = Location(0, 2 * Unit, 0)]}

\* Targets of the "ahead" query, as offsets in the XY plane from the
\* transform: the eight compass directions at 0.0005, at 0.001 and at 5
\* world units (axis steps), and the transform's own position.
Offsets ==
    {<<0, 0>>}
    \cup {<<dx * d, dy * d>> : dx \in {-1, 0, 1}, dy \in {-1, 0, 1},
                               d \in {1, DistFloor, 5 * Unit}} 

MaxDistances == {0, 1, Unit, 10 * Unit}

----------------------------------------------------------------------------
(* The state machine: one Transform object t and the last call made on it  *)
(* with what it returned.                                                  *)

Init ==
    \E l \in Locations, r \in Rotations :
        /\ t = Transform___init__(l, r)
        /\ ret = [op |-> "__init__"]

\* t.location = Location(...)
SetLocation(l) ==
    /\ t' = [t EXCEPT !.location = l]
    /\ ret' = [op |-> "set"]

\* t.location.x = v
SetLocationX(v) ==
    /\ t' = [t EXCEPT !.location.x = v]
    /\ ret' = [op |-> "set"]

\* t.rotation = Rotation(...)
SetRotation(r) ==
    /\ t' = [t EXCEPT !.rotation = r]
    /\ ret' = [op |-> "set"]

\* t.rotation.yaw = v
SetRotationYaw(v) ==
    /\ t' = [t EXCEPT !.rotation.yaw = v]
    /\ ret' = [op |-> "set"]

\* t.get_matrix(inverse)
GetMatrix(inverse) ==
    LET g == Transform_get_matrix(t, inverse)
    IN /\ t' = g.self
       /\ ret' = [op |-> "get_matrix", inverse |-> inverse, val |-> g.ret,
                  stale |-> Transform_is_stale(t),
                  had_inverse |-> t._inv_matrix # None]
   
\* q = t.transform_point(p)
TransformPoint(p) ==
    LET g == Transform_transform_point(t, p)
    IN /\ t' = g.self
       /\ ret' = [op |-> "transform_point", arg |-> p, val |-> g.ret,
                  stale |-> Transform_is_stale(t)]
   
\* t.inverse_transform_point(p), where p is a point of the caller's or the
\* point q that t.transform_point has just returned; orig is then the
\* point that q was computed from.
InverseTransformPoint(p) ==
    LET g == Transform_inverse_transform_point(t, p)
        chained == ret.op = "transform_point" /\ ret.val = p
    IN /\ t' = g.self
       /\ ret' = [op |-> "inverse_transform_point", arg |-> p, val |-> g.ret,
                  chained |-> chained,
                  orig |-> IF chained THEN ret.arg ELSE None,
                  stale |-> IF chained THEN ret.stale ELSE FALSE]
   
\* t * other
Mul(other) ==
    \E new \in Transform___mul__(t, other) :
        /\ ret' = [op |-> "__mul__", other |-> other, val |-> new]
        /\ UNCHANGED t

\* t.inverse_transform()
InverseTransform ==
    LET g == Transform_inverse_transform(t)
    IN \E new \in g.rets :
        /\ t' = g.self
        /\ ret' = [op |-> "inverse_transform", before |-> t, val |-> new]
    
\* Transform(matrix=Transform._create_matrix(l, r)) for the pose (l, r) of
\* t, when its pitch is not 90 or -90 degrees (there the recovery of yaw and
\* roll divides rounding residues, see ClippedQuotient; such matrices are
\* among InitMatrices).
FromMatrix ==
    /\ SinDeg(t.rotation.pitch) = 0
    /\ \E new \in Transform___init___matrix(Transform__create_matrix(t.location, t.rotation)) :
          /\ ret' = [op |-> "Transform(matrix)", location |-> t.location,
                     rotation |-> t.rotation, val |-> new]
          /\ UNCHANGED t

\* The target is exactly abeam of t: at a right angle to the yaw direction.
Abeam(self, dst_loc) ==
    /\ dst_loc.x # self.location.x \/ dst_loc.y # self.location.y
    /\ CosDeg(self.rotation.yaw) * (dst_loc.x - self.location.x)
       + SinDeg(self.rotation.yaw) * (dst_loc.y - self.location.y) = 0

\* t.is_within_distance_ahead(dst_loc, max_distance), for a target that is
\* not exactly abeam: there the bearing is 90 degrees up to the rounding of
\* cos, sin and atan2, on which side of 90 it falls is not decided here.
IsWithinDistanceAhead(dst_loc, max_distance) ==
    /\ ~Abeam(t, dst_loc)
    /\ ret' = [op |-> "is_within_distance_ahead", dst_loc |-> dst_loc,
               max_distance |-> max_distance,
               val |-> Transform_is_within_distance_ahead(t, dst_loc, max_distance)]
    /\ UNCHANGED t

Next ==
    \/ \E l \in Locations : SetLocation(l)
    \/ \E v \in Xs : SetLocationX(v)
    \/ \E r \in Rotations : SetRotation(r)
    \/ \E v \in Yaws : SetRotationYaw(v)
    \/ \E inverse \in BOOLEAN : GetMatrix(inverse)
    \/ \E p \in Points : TransformPoint(p)
    \/ \E p \in Points \cup (IF ret.op = "transform_point" THEN {ret.val} ELSE {}) :
          InverseTransformPoint(p)

Spec == Init /\ [][Next]_vars

\* The matrices a Transform is built from at the start: closed-form
\* matrices and their inverses.
InitMatrices ==
    LET closed == {Transform__create_matrix(Location(0, -Unit, 2 * Unit), r) :
                     r \in {Rotation(0, -90, 0), Rotation(0, 90, 90)}}
    IN closed \cup {MatInv(m) : m \in closed}

\* t is built from a location and a rotation, or from a matrix.
InitCompose ==
    /\ \/ \E r \in Rotations : t = Transform___init__(Location(0, -Unit, 2 * Unit), r)
       \/ \E m \in InitMatrices : t \in Transform___init___matrix(m)
    /\ ret = [op |-> "__init__"]

\* The program that also builds Transforms from matrices: products,
\* inverses and closed-form matrices.  It changes the pose in place.
NextCompose ==
    \/ \E v \in Xs : SetLocationX(v)
    \/ \E v \in Yaws : SetRotationYaw(v)
    \/ \E inverse \in BOOLEAN : GetMatrix(inverse)
    \/ \E p \in Points : TransformPoint(p)
    \/ \E p \in Points \cup (IF ret.op = "transform_point" THEN {ret.val} ELSE {}) :
          InverseTransformPoint(p)
    \/ \E other \in Others : Mul(other)
    \/ InverseTransform
    \/ FromMatrix

SpecCompose == InitCompose /\ [][NextCompose]_vars

\* The "ahead" query reads only the pose: its specification mutates the
\* pose and asks.
NextAhead ==
    \/ \E l \in Locations : SetLocation(l)
    \/ \E v \in Xs : SetLocationX(v)
    \/ \E r \in Rotations : SetRotation(r)
    \/ \E v \in Yaws : SetRotationYaw(v)
    \/ \E o \in Offsets, max_distance \in MaxDistances :
          IsWithinDistanceAhead(Location(t.location.x + o[1], t.location.y + o[2],
                                         t.location.z), max_distance)

SpecAhead == Init /\ [][NextAhead]_vars

----------------------------------------------------------------------------
(* Rotation: the basis vectors *)

\* get_right_vector with the sign of its z component lost.
Rotation_get_right_vector_unsigned(self) ==
    LET cy == CosDeg(self.yaw)
        sy == SinDeg(self.yaw)
        cr == CosDeg(self.roll)
        sr == SinDeg(self.roll)
        cp == CosDeg(self.pitch)
        sp == SinDeg(self.pitch)
    IN Vector3D(cy * sp * sr - sy * cr, sy * sp * sr + cy * cr, cp * sr)

Rotation_get_right_vector(self) ==
    LET cy == CosDeg(self.yaw)
        sy == SinDeg(self.yaw)
        cr == CosDeg(self.roll)
        sr == SinDeg(self.roll)
        cp == CosDeg(self.pitch)
        sp == SinDeg(self.pitch)
    IN Vector3D(cy * sp * sr - sy * cr, sy * sp * sr + cy * cr, (-cp) * sr)

Rotation_get_forward_vector(self) ==
    LET cp == CosDeg(self.pitch)
        sp == SinDeg(self.pitch)
        cy == CosDeg(self.yaw)
        sy == SinDeg(self.yaw)
    IN Vector3D(cp * cy, cp * sy, sp)

Rotation_get_up_vector(self) ==
    LET cy == CosDeg(self.yaw)
        sy == SinDeg(self.yaw)
        cr == CosDeg(self.roll)
        sr == SinDeg(self.roll)
        cp == CosDeg(self.pitch)
        sp == SinDeg(self.pitch)
    IN Vector3D((-cy) * sp * cr - sy * sr, (-sy) * sp * cr + cy * sr, cp * cr)

\* The Euler angles of the rotations asked for their basis and converted to
\* quaternions: multiples of 90 degrees, in and out of (-180, 180].
EulerAngles == {-90, 0, 90, 180, 270}

EulerRotations ==
    {Rotation(pitch, yaw, roll) : pitch \in EulerAngles, yaw \in EulerAngles,
                                  roll \in EulerAngles}

\* t.rotation.get_right_vector()
GetRightVector ==
    /\ ret' = [op |-> "get_right_vector", val |-> Rotation_get_right_vector(t.rotation)]
    /\ UNCHANGED t

\* t.rotation.get_forward_vector()
GetForwardVector ==
    /\ ret' = [op |-> "get_forward_vector",
               val |-> Rotation_get_forward_vector(t.rotation)]
    /\ UNCHANGED t

\* t.rotation.get_up_vector()
GetUpVector ==
    /\ ret' = [op |-> "get_up_vector", val |-> Rotation_get_up_vector(t.rotation)]
    /\ UNCHANGED t

\* The basis vectors read only the rotation: their specification sets the
\* rotation and asks.
NextRotation ==
    \/ \E r \in EulerRotations : SetRotation(r)
    \/ \E v \in Yaws : SetRotationYaw(v)
    \/ GetRightVector
    \/ GetForwardVector
    \/ GetUpVector

SpecRotation == Init /\ [][NextRotation]_vars

----------------------------------------------------------------------------
(* Quaternion *)
(* The components of the quaternion of a rotation by multiples of 90       *)
(* degrees are 0, 1/2, sqrt(2)/2 and 1 up to sign.  A number is held       *)
(* exactly as a pair (a, b) that stands for (a + b * sqrt(2)) / QDen; a    *)
(* product of two numbers is a pair over QDen * QDen.                      *)

\* The denominator of a stored number: cos and sin of a half angle
\* (a multiple of 45 degrees) are 0/2, 2/2 and sqrt(2)/2 up to sign.
QDen == 2

Num(a, b) == [a |-> a, b |-> b]

NumAdd(p, q) == Num(p.a + q.a, p.b + q.b)

NumSub(p, q) == Num(p.a - q.a, p.b - q.b)

NumNeg(p) == Num(-p.a, -p.b)

NumScale(k, p) == Num(k * p.a, k * p.b)

\* The product of two numbers; its denominator is the product of theirs.
NumTimes(p, q) == Num(p.a * q.a + 2 * p.b * q.b, p.a * q.b + p.b * q.a)

\* The pair over a denominator k times smaller.
NumOver(p, k) == Num(p.a \div k, p.b \div k)

\* -1, 0 or 1: the sign of a + b * sqrt(2).
NumSign(p) ==
    CASE p.a = 0 /\ p.b = 0 -> 0
      [] p.a >= 0 /\ p.b >= 0 /\ (p.a > 0 \/ p.b > 0) -> 1
      [] p.a <= 0 /\ p.b <= 0 /\ (p.a < 0 \/ p.b < 0) -> -1
      [] p.a > 0 /\ p.b < 0 -> IF p.a * p.a > 2 * p.b * p.b THEN 1 ELSE -1
      [] p.a < 0 /\ p.b > 0 -> IF 2 * p.b * p.b > p.a * p.a THEN 1 ELSE -1

\* a + b * sqrt(2) in units of 1e-7.
NumApprox(p) == p.a * 10000000 + p.b * 14142136

\* math.cos(math.radians(deg) / 2.0) and math.sin(math.radians(deg) / 2.0)
\* for deg a multiple of 90.
CosHalf(deg) ==
    CASE deg % 720 = 0 -> Num(2, 0)
      [] deg % 720 = 90 -> Num(0, 1)
      [] deg % 720 = 180 -> Num(0, 0)
      [] deg % 720 = 270 -> Num(0, -1)
      [] deg % 720 = 360 -> Num(-2, 0)
      [] deg % 720 = 450 -> Num(0, -1)
      [] deg % 720 = 540 -> Num(0, 0)
      [] deg % 720 = 630 -> Num(0, 1)

SinHalf(deg) ==
    CASE deg % 720 = 0 -> Num(0, 0)
      [] deg % 720 = 90 -> Num(0, 1)
      [] deg % 720 = 180 -> Num(2, 0)
      [] deg % 720 = 270 -> Num(0, 1)
      [] deg % 720 = 360 -> Num(0, 0)
      [] deg % 720 = 450 -> Num(0, -1)
      [] deg % 720 = 540 -> Num(-2, 0)
      [] deg % 720 = 630 -> Num(0, -1)

\* 1e-50, the floor of the norm, as a power of ten.
NormFloorExp == -50

\* The components a quaternion can store: of magnitude at most 1.
Components == {Num(a, b) : a \in -QDen..QDen, b \in -1..1}

\* The square of np.linalg.norm([w, x, y, z]), over QDen * QDen.
NormSq(w, x, y, z) ==
    NumAdd(NumAdd(NumTimes(w, w), NumTimes(x, x)),
           NumAdd(NumTimes(y, y), NumTimes(z, z)))

\* np.linalg.norm([w, x, y, z]): the number whose square is NormSq.
Norm(w, x, y, z) ==
    LET n == NormSq(w, x, y, z)
    IN CHOOSE r \in {Num(k, 0) : k \in 0..n.a} \cup {Num(0, k) : k \in 0..n.a} :
          NumTimes(r, r) = n

\* norm < 1e-50, for components that are the given numbers times 10^exp:
\* a norm that is not 0 lies between 0.1 and 1000 times 10^exp.
NormBelowFloor(norm, exp) ==
    \/ norm = Num(0, 0)
    \/ exp + 3 <= NormFloorExp

\* c / norm: the component q with q * norm = c.
NumDivide(c, norm) ==
    CHOOSE q \in Components : NumTimes(q, norm) = NumScale(QDen, c)

Quaternion__create_matrix(w, x, y, z) ==
    LET x2 == NumScale(2, x)
        y2 == NumScale(2, y)
        z2 == NumScale(2, z)
        xx == NumTimes(x, x2)
        xy == NumTimes(x, y2)
        xz == NumTimes(x, z2)
        yy == NumTimes(y, y2)
        yz == NumTimes(y, z2)
        zz == NumTimes(z, z2)
        wx == NumTimes(w, x2)
        wy == NumTimes(w, y2)
        wz == NumTimes(w, z2)
        one == Num(QDen * QDen, 0)
        e(p) == NumOver(p, QDen)
    IN << <<e(NumSub(one, NumAdd(yy, zz))), e(NumSub(xy, wz)), e(NumAdd(xz, wy))>>,
          <<e(NumAdd(xy, wz)), e(NumSub(one, NumAdd(xx, zz))), e(NumSub(yz, wx))>>,
          <<e(NumSub(xz, wy)), e(NumAdd(yz, wx)), e(NumSub(one, NumAdd(xx, yy)))>> >>

\* Quaternion.__init__ that stores its arguments as they are.
Quaternion___init___raw(w, x, y, z, exp) ==
    [w |-> w, x |-> x, y |-> y, z |-> z,
     matrix |-> Quaternion__create_matrix(w, x, y, z)]

\* Quaternion(w, x, y, z) for arguments that are the given numbers times
\* 10^exp.
Quaternion___init__(w, x, y, z, exp) ==
    LET norm == Norm(w, x, y, z)
        f(c) == IF NormBelowFloor(norm, exp) THEN Num(0, 0) ELSE NumDivide(c, norm)
    IN [w |-> f(w), x |-> f(x), y |-> f(y), z |-> f(z),
        matrix |-> Quaternion__create_matrix(f(w), f(x), f(y), f(z))]

\* from_rotation with the signs of x and y of the usual aerospace formula.
Quaternion_from_rotation_aerospace(rotation) ==
    LET cr == CosHalf(rotation.roll)
        sr == SinHalf(rotation.roll)
        cp == CosHalf(rotation.pitch)
        sp == SinHalf(rotation.pitch)
        cy == CosHalf(rotation.yaw)
        sy == SinHalf(rotation.yaw)
        m3(a, b, c) == NumTimes(NumTimes(a, b), c)
        e(p) == NumOver(p, QDen * QDen)
        w == NumAdd(m3(cr, cp, cy), m3(sr, sp, sy))
        x == NumSub(m3(sr, cp, cy), m3(cr, sp, sy))
        y == NumAdd(m3(cr, sp, cy), m3(sr, cp, sy))
        z == NumSub(m3(cr, cp, sy), m3(sr, sp, cy))
    IN Quaternion___init__(e(w), e(x), e(y), e(z), 0)

\* Quaternion.from_rotation(rotation)
Quaternion_from_rotation(rotation) ==
    LET cr == CosHalf(rotation.roll)
        sr == SinHalf(rotation.roll)
        cp == CosHalf(rotation.pitch)
        sp == SinHalf(rotation.pitch)
        cy == CosHalf(rotation.yaw)
        sy == SinHalf(rotation.yaw)
        m3(a, b, c) == NumTimes(NumTimes(a, b), c)
        e(p) == NumOver(p, QDen * QDen)
        w == NumAdd(m3(cr, cp, cy), m3(sr, sp, sy))
        x == NumSub(m3(cr, sp, sy), m3(sr, cp, cy))
        y == NumSub(NumNeg(m3(cr, sp, cy)), m3(sr, cp, sy))
        z == NumSub(m3(cr, cp, sy), m3(sr, sp, cy))
    IN Quaternion___init__(e(w), e(x), e(y), e(z), 0)

\* Quaternion.from_angular_velocity(angular_velocity, dt) for an angular
\* velocity along one axis, in quarter turns per unit of time (its
\* components are these integers times pi / 2), and a whole dt.
Quaternion_from_angular_velocity(angular_velocity, dt) ==
    LET v == <<angular_velocity.x * dt, angular_velocity.y * dt, angular_velocity.z * dt>>
        magnitude == Abs(v[1]) + Abs(v[2]) + Abs(v[3])
        w == CosHalf(90 * magnitude)
        s == SinHalf(90 * magnitude)
        imaginary(i) == IF magnitude = 0
                        THEN Num(0, 0)
                        ELSE NumScale(v[i] \div magnitude, s)
    IN Quaternion___init__(w, imaginary(1), imaginary(2), imaginary(3), 0)

\* self * other with the operands exchanged.
Quaternion___mul___swapped(self, other) ==
    LET q1 == self
        q2 == other
        e(p) == NumOver(p, QDen)
        x == NumSub(NumAdd(NumAdd(NumTimes(q2.w, q1.x), NumTimes(q2.x, q1.w)),
                           NumTimes(q2.y, q1.z)), NumTimes(q2.z, q1.y))
        y == NumAdd(NumAdd(NumSub(NumTimes(q2.w, q1.y), NumTimes(q2.x, q1.z)),
                           NumTimes(q2.y, q1.w)), NumTimes(q2.z, q1.x))
        z == NumAdd(NumSub(NumAdd(NumTimes(q2.w, q1.z), NumTimes(q2.x, q1.y)),
                           NumTimes(q2.y, q1.x)), NumTimes(q2.z, q1.w))
        w == NumSub(NumSub(NumSub(NumTimes(q2.w, q1.w), NumTimes(q2.x, q1.x)),
                           NumTimes(q2.y, q1.y)), NumTimes(q2.z, q1.z))
    IN Quaternion___init__(e(w), e(x), e(y), e(z), 0)

\* self * other
Quaternion___mul__(self, other) ==
    LET q1 == other
        q2 == self
        e(p) == NumOver(p, QDen)
        x == NumSub(NumAdd(NumAdd(NumTimes(q2.w, q1.x), NumTimes(q2.x, q1.w)),
                           NumTimes(q2.y, q1.z)), NumTimes(q2.z, q1.y))
        y == NumAdd(NumAdd(NumSub(NumTimes(q2.w, q1.y), NumTimes(q2.x, q1.z)),
                           NumTimes(q2.y, q1.w)), NumTimes(q2.z, q1.x))
        z == NumAdd(NumSub(NumAdd(NumTimes(q2.w, q1.z), NumTimes(q2.x, q1.y)),
                           NumTimes(q2.y, q1.x)), NumTimes(q2.z, q1.w))
        w == NumSub(NumSub(NumSub(NumTimes(q2.w, q1.w), NumTimes(q2.x, q1.x)),
                           NumTimes(q2.y, q1.y)), NumTimes(q2.z, q1.z))
    IN Quaternion___init__(e(w), e(x), e(y), e(z), 0)

\* 0.4999995 in units of 1e-7.
SingularityThreshold == 4999995

\* The angles np.arctan2(y, x) * RAD_TO_DEG can be, in degrees.  Where the
\* exact arguments are both 0 the code divides two rounding residues and
\* every direction is possible; where y is 0 and x is negative the sign of
\* the residue y decides between 180 and -180.
Atan2Deg(y, x) ==
    LET sy == NumSign(y)
        sx == NumSign(x)
    IN CASE sy = 0 /\ sx = 0 -> {-180, -90, 0, 90, 180}
         [] sy = 0 /\ sx > 0 -> {0}
         [] sy = 0 /\ sx < 0 -> {-180, 180}
         [] sy > 0 /\ sx = 0 -> {90}
         [] sy < 0 /\ sx = 0 -> {-90}
         [] sy > 0 /\ sx > 0 /\ y = x -> {45}
         [] sy > 0 /\ sx < 0 /\ y = NumNeg(x) -> {135}
         [] sy < 0 /\ sx < 0 /\ y = x -> {-135}
         [] sy < 0 /\ sx > 0 /\ y = NumNeg(x) -> {-45}

\* np.arcsin(v) * RAD_TO_DEG for v = p / (QDen * QDen) in {-1, 0, 1}.
ArcsinDeg(p) ==
    CASE p = Num(0, 0) -> AsinDeg(0)
      [] p = Num(QDen * QDen, 0) -> AsinDeg(1)
      [] p = Num(-(QDen * QDen), 0) -> AsinDeg(-1)

\* as_rotation with the sign of the singularity test reversed.
Quaternion_singularity_test_reversed(self) ==
    NumSub(NumTimes(self.w, self.y), NumTimes(self.z, self.x))

\* singularity_test of as_rotation, over QDen * QDen.
Quaternion_singularity_test(self) ==
    NumSub(NumTimes(self.z, self.x), NumTimes(self.w, self.y))

\* The branch as_rotation takes: -1 below the threshold, 1 above, else 0.
Quaternion_branch(self) ==
    LET singularity_test == Quaternion_singularity_test(self)
    IN IF NumApprox(singularity_test) < -(SingularityThreshold * QDen * QDen)
       THEN -1
       ELSE IF NumApprox(singularity_test) > SingularityThreshold * QDen * QDen
            THEN 1
            ELSE 0

\* as_rotation(): the rotations the call can return.
Quaternion_as_rotation(self) ==
    LET one == Num(QDen * QDen, 0)
        singularity_test == Quaternion_singularity_test(self)
        yaw_y == NumScale(2, NumAdd(NumTimes(self.w, self.z), NumTimes(self.x, self.y)))
        yaw_x == NumSub(one, NumScale(2, NumAdd(NumTimes(self.y, self.y),
                                                 NumTimes(self.z, self.z))))
        yaws == Atan2Deg(yaw_y, yaw_x)
        halves == Atan2Deg(self.x, self.w)
        roll_y == NumScale(-2, NumAdd(NumTimes(self.w, self.x), NumTimes(self.y, self.z)))
        roll_x == NumSub(one, NumScale(2, NumAdd(NumTimes(self.x, self.x),
                                                  NumTimes(self.y, self.y))))
    IN CASE Quaternion_branch(self) = -1 ->
              {Rotation(-90, yaw, (-yaw) - 2 * half) : yaw \in yaws, half \in halves}
         [] Quaternion_branch(self) = 1 ->
              {Rotation(90, yaw, yaw - 2 * half) : yaw \in yaws, half \in halves}
         [] Quaternion_branch(self) = 0 ->
              {Rotation(ArcsinDeg(NumScale(2, singularity_test)), yaw, roll) :
                  yaw \in yaws, roll \in Atan2Deg(roll_y, roll_x)}

\* The Euler angles of the rotations converted to quaternions.  180 and
\* -180 are left out: there the recovery reads the sign of a rounding
\* residue (see Atan2Deg).
QuatAngles == {-90, 0, 90, 270}

QuatRotations ==
    {Rotation(pitch, yaw, roll) : pitch \in QuatAngles, yaw \in QuatAngles,
                                  roll \in QuatAngles}

\* Arguments of the constructor, <<w, x, y, z, exp>> for the components
\* w, x, y, z over QDen times 10^exp: (0,0,0,0), (1e-60,0,0,0), (2,0,0,0),
\* (1,1,0,0), (1,0,-1,0), (1,1,1,1), (1,-1,-1,1), (0,3,0,0) and
\* (0,0,1e-60,-1e-60).
QuatArgs ==
    {<<Num(0, 0), Num(0, 0), Num(0, 0), Num(0, 0), 0>>,
     <<Num(2, 0), Num(0, 0), Num(0, 0), Num(0, 0), -60>>,
     <<Num(4, 0), Num(0, 0), Num(0, 0), Num(0, 0), 0>>,
     <<Num(2, 0), Num(2, 0), Num(0, 0), Num(0, 0), 0>>,
     <<Num(2, 0), Num(0, 0), Num(-2, 0), Num(0, 0), 0>>,
     <<Num(2, 0), Num(2, 0), Num(2, 0), Num(2, 0), 0>>,
     <<Num(2, 0), Num(-2, 0), Num(-2, 0), Num(2, 0), 0>>,
     <<Num(0, 0), Num(6, 0), Num(0, 0), Num(0, 0), 0>>,
     <<Num(0, 0), Num(0, 0), Num(2, 0), Num(-2, 0), -60>>}

AngularVelocities ==
    {Vector3D(0, 0, 0), Vector3D(1, 0, 0), Vector3D(0, -1, 0), Vector3D(0, 0, 2)}

Dts == {0, 1, 3}

\* The quaternions (1,0,0,0) and (0,0,0,0).
QuatIdentity == Quaternion___init__(Num(2, 0), Num(0, 0), Num(0, 0), Num(0, 0), 0)

QuatSentinel == Quaternion___init__(Num(0, 0), Num(0, 0), Num(0, 0), Num(0, 0), 0)

\* The right operands of a quaternion product.
QuatOthers ==
    {QuatIdentity,
     QuatSentinel,
     Quaternion___init__(Num(0, 0), Num(2, 0), Num(0, 0), Num(0, 0), 0),
     Quaternion_from_rotation(Rotation(0, 90, 0)),
     Quaternion_from_rotation(Rotation(90, 0, 90))}

\* The last call returned a Quaternion.
ReturnedQuaternion ==
    ret.op \in {"Quaternion", "from_rotation", "from_angular_velocity",
                "Quaternion.__mul__"}

\* Quaternion(w, x, y, z)
NewQuaternion(a) ==
    /\ ret' = [op |-> "Quaternion", args |-> a,
               val |-> Quaternion___init__(a[1], a[2], a[3], a[4], a[5])]
    /\ UNCHANGED t

\* Quaternion.from_rotation(r)
FromRotation(r) ==
    /\ ret' = [op |-> "from_rotation", rotation |-> r,
               val |-> Quaternion_from_rotation(r)]
    /\ UNCHANGED t

\* Quaternion.from_angular_velocity(angular_velocity, dt)
FromAngularVelocity(angular_velocity, dt) ==
    /\ ret' = [op |-> "from_angular_velocity",
               angular_velocity |-> angular_velocity, dt |-> dt,
               val |-> Quaternion_from_angular_velocity(angular_velocity, dt)]
    /\ UNCHANGED t

\* q * other, for the quaternion q that the last call returned
QuaternionMul(other) ==
    /\ ReturnedQuaternion
    /\ ret' = [op |-> "Quaternion.__mul__", left |-> ret.val, right |-> other,
               val |-> Quaternion___mul__(ret.val, other)]
    /\ UNCHANGED t

\* q.as_rotation(), for the quaternion q that the last call returned;
\* converted says that q came from from_rotation(source).
AsRotation ==
    /\ ReturnedQuaternion
    /\ \E rotation \in Quaternion_as_rotation(ret.val) :
          ret' = [op |-> "as_rotation", q |-> ret.val,
                  converted |-> ret.op = "from_rotation",
                  source |-> IF ret.op = "from_rotation"
                             THEN ret.rotation
                             ELSE Rotation(0, 0, 0),
                  val |-> rotation]
    /\ UNCHANGED t

InitQuat ==
    /\ t = Transform___init__(Location(0, 0, 0), Rotation(0, 0, 0))
    /\ ret = [op |-> "__init__"]

\* Quaternions are values: a program builds them, multiplies them and
\* converts them back.
NextQuat ==
    \/ \E a \in QuatArgs : NewQuaternion(a)
    \/ \E r \in QuatRotations : FromRotation(r)
    \/ \E angular_velocity \in AngularVelocities, dt \in Dts :
          FromAngularVelocity(angular_velocity, dt)
    \/ \E other \in QuatOthers : QuaternionMul(other)
    \/ AsRotation

SpecQuat == InitQuat /\ [][NextQuat]_vars

----------------------------------------------------------------------------
(* BoundingBox *)

\* BoundingBox(location, extent, rotation)
BoundingBox(location, extent, rotation) ==
    [location |-> location, extent |-> extent, rotation |-> rotation]

\* contains that maps the point with the matrix, not with its inverse.
BoundingBox_contains_forward(self, world_point, transform) ==
    LET point == <<world_point.x, world_point.y, world_point.z>>
        g == Transform_transform_point(transform, point)
        offset == <<self.location.x, self.location.y, self.location.z>>
        point_in_bbox_space == [i \in 1..3 |-> Float32(g.ret[i] - offset[i])]
    IN [transform |-> g.self,
        ret |-> /\ Abs(point_in_bbox_space[1]) <= self.extent.x
                /\ Abs(point_in_bbox_space[2]) <= self.extent.y
                /\ Abs(point_in_bbox_space[3]) <= self.extent.z]

\* contains(world_point, transform) for a Location and a Transform: the
\* Transform after the call (its cache may be refreshed) and the value
\* returned.  The subtraction is in place on the float32 array.
BoundingBox_contains(self, world_point, transform) ==
    LET point == <<world_point.x, world_point.y, world_point.z>>
        g == Transform_inverse_transform_point(transform, point)
        offset == <<self.location.x, self.location.y, self.location.z>>
        point_in_bbox_space == [i \in 1..3 |-> Float32(g.ret[i] - offset[i])]
    IN [transform |-> g.self,
        ret |-> /\ Abs(point_in_bbox_space[1]) <= self.extent.x
                /\ Abs(point_in_bbox_space[2]) <= self.extent.y
                /\ Abs(point_in_bbox_space[3]) <= self.extent.z]

\* The box at offset (0,0,0) with extent (1,1,1).
UnitBox ==
    BoundingBox(Location(0, 0, 0), Vector3D(Unit, Unit, Unit), Rotation(0, 0, 0))

\* The unit box, and a box with an offset, unequal extents and a rotation
\* of its own.
Boxes ==
    {UnitBox,
     BoundingBox(Location(Unit, 0, -Unit), Vector3D(Unit, 2 * Unit, Unit \div 2),
                 Rotation(0, 90, 0))}

\* World points, as offsets from the location of the owner: on each axis
\* at 1 unit, just beyond 1 unit, at 2 and at 3 units on both sides, the
\* owner's location itself, and two points off the axes.
PointOffsets ==
    {<<0, 0, 0>>, <<Unit, Unit, Unit>>, <<2 * Unit, -2 * Unit, -Unit>>}
    \cup {<<d, 0, 0>> : d \in {-3 * Unit, -2 * Unit, -Unit - 1, -Unit, Unit, Unit + 1,
                                2 * Unit, 3 * Unit}}
    \cup {<<0, d, 0>> : d \in {-3 * Unit, -2 * Unit, -Unit - 1, -Unit, Unit, Unit + 1,
                                2 * Unit, 3 * Unit}}
    \cup {<<0, 0, d>> : d \in {-3 * Unit, -2 * Unit, -Unit - 1, -Unit, Unit, Unit + 1,
                                2 * Unit, 3 * Unit}}

\* box.contains(world_point, t)
Contains(box, world_point) ==
    LET c == BoundingBox_contains(box, world_point, t)
    IN /\ t' = c.transform
       /\ ret' = [op |-> "contains", box |-> box, world_point |-> world_point,
                  val |-> c.ret, stale |-> Transform_is_stale(t)]

\* The owner's pose changes in place and boxes are asked about points.
NextBox ==
    \/ \E v \in Xs : SetLocationX(v)
    \/ \E v \in Yaws : SetRotationYaw(v)
    \/ \E box \in Boxes, o \in PointOffsets :
          Contains(box, Location(t.location.x + o[1], t.location.y + o[2],
                                 t.location.z + o[3]))

SpecBox == Init /\ [][NextBox]_vars

----------------------------------------------------------------------------
(* get_matrix called from several threads on one Transform, with no lock.  *)
(* A thread switch can fall between any two statements of get_matrix; a    *)
(* step below is one statement.  ret holds, for each thread, the position  *)
(* of its call and what its last call returned.                            *)

Threads == {1, 2}

\* A thread that is not in a call and has not returned from one.
IdleThread ==
    [pc |-> "idle", inverse |-> FALSE, local |-> None, val |-> None, kind |-> "none"]

\* What a get_matrix(inverse) call returns on an object whose cache is
\* consistent with the pose of self.
Expected(self, inverse) ==
    LET matrix == Transform__create_matrix(self.location, self.rotation)
    IN IF inverse THEN MatInv(matrix) ELSE matrix

\* How a returned value compares with the matrix, or the inverse, of the
\* current pose.
ReturnKind(self, inverse, val) ==
    IF val = Expected(self, inverse)
    THEN "right"
    ELSE IF ~inverse
         THEN "stale matrix"
         ELSE IF val = None THEN "no inverse" ELSE "stale inverse"

\* Thread i moves to pc; the other fields of its record change as given.
Goto(i, pc) == [ret EXCEPT !.call[i].pc = pc]

\* Thread i calls t.get_matrix(inverse).  raced records that two calls
\* have been in progress at the same time.
Call(i, inverse) ==
    /\ ret.call[i].pc = "idle"
    /\ ret' = [ret EXCEPT
                 !.call[i] = [IdleThread EXCEPT !.pc = "check", !.inverse = inverse],
                 !.raced = ret.raced \/ \E j \in Threads \ {i} : ret.call[j].pc # "idle"]
    /\ UNCHANGED t

\* if self._location != self.location or self._rotation != self.rotation:
Check(i) ==
    /\ ret.call[i].pc = "check"
    /\ ret' = Goto(i, IF Transform_is_stale(t)
                      THEN "snap_location"
                      ELSE IF ret.call[i].inverse THEN "test_inverse" ELSE "return")
    /\ UNCHANGED t

\* self._location = self.location.copy()
SnapLocation(i) ==
    /\ ret.call[i].pc = "snap_location"
    /\ t' = [t EXCEPT !._location = Vector3D_copy(t.location)]
    /\ ret' = Goto(i, "snap_rotation")

\* self._rotation = self.rotation.copy()
SnapRotation(i) ==
    /\ ret.call[i].pc = "snap_rotation"
    /\ t' = [t EXCEPT !._rotation = Rotation_copy(t.rotation)]
    /\ ret' = Goto(i, "rebuild")

\* self.matrix = Transform._create_matrix(self.location, self.rotation)
Rebuild(i) ==
    /\ ret.call[i].pc = "rebuild"
    /\ t' = [t EXCEPT !.matrix = Transform__create_matrix(t.location, t.rotation)]
    /\ ret' = Goto(i, "clear")

\* The rebuild without its last statement: the cached inverse is kept.
ClearInverse_skipped(i) ==
    /\ ret.call[i].pc = "clear"
    /\ ret' = Goto(i, IF ret.call[i].inverse THEN "test_inverse" ELSE "return")
    /\ UNCHANGED t

\* self._inv_matrix = None
ClearInverse(i) ==
    /\ ret.call[i].pc = "clear"
    /\ t' = [t EXCEPT !._inv_matrix = None]
    /\ ret' = Goto(i, IF ret.call[i].inverse THEN "test_inverse" ELSE "return")

\* if self._inv_matrix is None:
TestInverse(i) ==
    /\ ret.call[i].pc = "test_inverse"
    /\ ret' = Goto(i, IF t._inv_matrix = None THEN "read_matrix" ELSE "return")
    /\ UNCHANGED t

\* np.linalg.inv(self.matrix) preceded by self._inv_matrix = None
ReadMatrix_clearing(i) ==
    /\ ret.call[i].pc = "read_matrix"
    /\ t' = [t EXCEPT !._inv_matrix = None]
    /\ ret' = [ret EXCEPT !.call[i].pc = "store_inverse", !.call[i].local = t.matrix]

\* np.linalg.inv(self.matrix): the argument is read
ReadMatrix(i) ==
    /\ ret.call[i].pc = "read_matrix"
    /\ ret' = [ret EXCEPT !.call[i].pc = "store_inverse", !.call[i].local = t.matrix]
    /\ UNCHANGED t

\* self._inv_matrix = (the inverse of the matrix read)
StoreInverse(i) ==
    /\ ret.call[i].pc = "store_inverse"
    /\ t' = [t EXCEPT !._inv_matrix = MatInv(ret.call[i].local)]
    /\ ret' = [ret EXCEPT !.call[i].pc = "return", !.call[i].local = None]

\* return self._inv_matrix / return self.matrix
Return(i) ==
    /\ ret.call[i].pc = "return"
    /\ LET val == IF ret.call[i].inverse THEN t._inv_matrix ELSE t.matrix
           kind == ReturnKind(t, ret.call[i].inverse, val)
       IN ret' = [ret EXCEPT !.call[i].pc = "idle",
                             !.call[i].val = val,
                             !.call[i].kind = kind,
                             !.seen = ret.seen \cup ({kind} \ {"right"})]
    /\ UNCHANGED t

\* t.location.x = v, while no get_matrix call is in progress
MutateLocationX(v) ==
    /\ \A i \in Threads : ret.call[i].pc = "idle"
    /\ t' = [t EXCEPT !.location.x = v]
    /\ UNCHANGED ret

InitThreads ==
    /\ t = Transform___init__(Location(0, -Unit, 2 * Unit), Rotation(0, -90, 0))
    /\ ret = [op |-> "threads", call |-> [i \in Threads |-> IdleThread],
              raced |-> FALSE, seen |-> {}]

NextThreads ==
    \/ \E v \in Xs : MutateLocationX(v)
    \/ \E i \in Threads, inverse \in BOOLEAN : Call(i, inverse)
    \/ \E i \in Threads : Check(i)
    \/ \E i \in Threads : SnapLocation(i)
    \/ \E i \in Threads : SnapRotation(i)
    \/ \E i \in Threads : Rebuild(i)
    \/ \E i \in Threads : ClearInverse(i)
    \/ \E i \in Threads : TestInverse(i)
    \/ \E i \in Threads : ReadMatrix(i)
    \/ \E i \in Threads : StoreInverse(i)
    \/ \E i \in Threads : Return(i)

SpecThreads == InitThreads /\ [][NextThreads]_vars

----------------------------------------------------------------------------
(* Transform(matrix=...) for matrices that no pose generates *)

\* The values that the matrix branch of __init__ passes to math.asin,
\* math.acos and math.asin for pitch, yaw and roll: the triples it can be.
AsinAcosArguments(matrix) ==
    LET forward_vector == Vector3D(matrix[1][1], matrix[2][1], matrix[3][1])
        sp == Clip(forward_vector.z, -1, 1)
    IN {<<sp, yq, rq>> : yq \in ClippedQuotient(forward_vector.x, sp, 1),
                         rq \in ClippedQuotient(matrix[3][2], sp, -1)}

\* 4x4 matrices with whole entries: the first column (x, y, z) and the
\* entry [2, 1] range over values inside and outside [-1, 1], the
\* translation over Xs; most of them are not orthonormal, and those with
\* |z| >= 1 have a recovered pitch of 90 or -90 degrees.
AnyMatrices ==
    {<< <<fx, 0, 2, tx>>,
        <<1, 1, 0, -Unit>>,
        <<fz, m21, 1, 2 * Unit>>,
        <<0, 0, 0, 1>> >> :
        fx \in {-3, 0, 1}, fz \in {-2, 0, 1}, m21 \in {-4, 0, 1}, tx \in Xs}

\* t = Transform(matrix=m)
NewFromMatrix(m) ==
    /\ t' \in Transform___init___matrix(m)
    /\ ret' = [op |-> "Transform(any matrix)", matrix |-> m]

InitAnyMatrix ==
    /\ t = Transform___init__(Location(0, 0, 0), Rotation(0, 0, 0))
    /\ ret = [op |-> "__init__"]

\* Transforms are built from matrices and their matrix is read back.
NextAnyMatrix ==
    \/ \E m \in AnyMatrices : NewFromMatrix(m)
    \/ GetMatrix(FALSE)

SpecAnyMatrix == InitAnyMatrix /\ [][NextAnyMatrix]_vars

----------------------------------------------------------------------------
(* Vector arithmetic and the comparison operators.  The components of a    *)
(* vector are float64 here, because the result of a + b is rounded.  A     *)
(* float is written hi * 2^60 + lo with whole hi and lo of magnitude below *)
(* 2^7: it is a float64 exactly when hi = 0 or lo = 0, since the floats    *)
(* next to a nonzero multiple of 2^60 are at least 2^8 apart.              *)

Float(hi, lo) == [hi |-> hi, lo |-> lo]

Representable(p) == p.hi = 0 \/ p.lo = 0

\* Rounding of the exact result hi * 2^60 + lo to the nearest float64: lo
\* is less than half the spacing of the floats around a nonzero hi * 2^60.
FloatRound(hi, lo) == IF hi # 0 THEN Float(hi, 0) ELSE Float(0, lo)

\* self.x + other.x
FloatAdd(p, q) == FloatRound(p.hi + q.hi, p.lo + q.lo)

\* self.x - other.x
FloatSub(p, q) == FloatRound(p.hi - q.hi, p.lo - q.lo)

\* self + other with the result built by Vector3D(...) instead of
\* type(self)(...).
Vector3D___add___base(self, other) ==
    [self |-> self,
     other |-> other,
     ret |-> Vector3D(FloatAdd(self.x, other.x), FloatAdd(self.y, other.y),
                      FloatAdd(self.z, other.z))]

\* self + other: the operands after the call and the new vector.
Vector3D___add__(self, other) ==
    [self |-> self,
     other |-> other,
     ret |-> [type |-> TypeOf(self),
              x |-> FloatAdd(self.x, other.x),
              y |-> FloatAdd(self.y, other.y),
              z |-> FloatAdd(self.z, other.z)]]

\* self - other
Vector3D___sub__(self, other) ==
    [self |-> self,
     other |-> other,
     ret |-> [type |-> TypeOf(self),
              x |-> FloatSub(self.x, other.x),
              y |-> FloatSub(self.y, other.y),
              z |-> FloatSub(self.z, other.z)]]

\* self == other with isinstance(other, Vector3D) in place of the test on
\* type(other).
Vector3D___eq___isinstance(self, other) ==
    IF TypeOf(other) \in {"Vector3D", "Location"}
    THEN self.x = other.x /\ self.y = other.y /\ self.z = other.z
    ELSE FALSE

Vector3D___eq__(self, other) ==
    IF TypeOf(other) = TypeOf(self)
    THEN self.x = other.x /\ self.y = other.y /\ self.z = other.z
    ELSE FALSE

Vector2D___eq__(self, other) ==
    IF TypeOf(other) = TypeOf(self)
    THEN self.x = other.x /\ self.y = other.y
    ELSE FALSE

Vector2D___ne__(self, other) ==
    IF TypeOf(other) = TypeOf(self)
    THEN self.x # other.x \/ self.y # other.y
    ELSE TRUE

Rotation___eq__(self, other) ==
    IF TypeOf(other) = TypeOf(self)
    THEN /\ self.pitch = other.pitch
         /\ self.yaw = other.yaw
         /\ self.roll = other.roll
    ELSE FALSE

Transform___eq__(self, other) ==
    IF TypeOf(other) # TypeOf(self)
    THEN FALSE
    ELSE /\ Vector3D___eq__(self.location, other.location)
         /\ Rotation___eq__(self.rotation, other.rotation)

Transform___ne__(self, other) ==
    IF TypeOf(other) # TypeOf(self)
    THEN TRUE
    ELSE \/ Vector3D___ne__(self.location, other.location)
         \/ Rotation___ne__(self.rotation, other.rotation)

\* The object whose method Python calls for a == b and a != b: a, unless
\* b's class is a subclass of a's (a Location on the right of a Vector3D),
\* in which case b's method is tried first, with a as its argument.
Receiver(a, b) ==
    IF TypeOf(a) = "Vector3D" /\ TypeOf(b) = "Location" THEN b ELSE a

Argument(a, b) ==
    IF TypeOf(a) = "Vector3D" /\ TypeOf(b) = "Location" THEN a ELSE b

\* a == b
Eq(a, b) ==
    LET self == Receiver(a, b)
        other == Argument(a, b)
    IN CASE TypeOf(self) \in {"Vector3D", "Location"} ->
                Vector3D___eq__(self, other)
         [] TypeOf(self) = "Vector2D" -> Vector2D___eq__(self, other)
         [] TypeOf(self) = "Rotation" -> Rotation___eq__(self, other)
         [] TypeOf(self) = "Transform" -> Transform___eq__(self, other)

\* a != b
Ne(a, b) ==
    LET self == Receiver(a, b)
        other == Argument(a, b)
    IN CASE TypeOf(self) \in {"Vector3D", "Location"} ->
                Vector3D___ne__(self, other)
         [] TypeOf(self) = "Vector2D" -> Vector2D___ne__(self, other)
         [] TypeOf(self) = "Rotation" -> Rotation___ne__(self, other)
         [] TypeOf(self) = "Transform" -> Transform___ne__(self, other)

\* Floats: 0, small numbers, and multiples of 2^60.
Floats == {Float(0, 0), Float(0, 1), Float(0, -3), Float(1, 0), Float(-1, 0)}

\* Vector3D and Location operands.
Vectors ==
    {[type |-> c, x |-> x, y |-> y, z |-> Float(0, 0)] :
        c \in {"Vector3D", "Location"}, x \in Floats,
        y \in {Float(0, 0), Float(0, 5)}}

\* The objects that are compared: vectors of the three classes, rotations,
\* transforms (one of them located by a plain Vector3D).
Comparables ==
    {Vector2D(Float(0, 1), Float(0, 0)), Vector2D(Float(0, 1), Float(0, 5)),
     Vector3D(Float(0, 1), Float(0, 0), Float(0, 0)),
     Location(Float(0, 1), Float(0, 0), Float(0, 0)),
     Vector3D(Float(0, 1), Float(0, 0), Float(0, -3)),
     Location(Float(1, 0), Float(0, 0), Float(0, 0)),
     Rotation(0, 0, 0), Rotation(0, 90, 0), Rotation(90, 0, 0),
     Transform___init__(Location(0, 0, 0), Rotation(0, 0, 0)),
     Transform___init__(Location(3 * Unit, 0, 0), Rotation(0, 0, 0)),
     Transform___init__(Location(0, 0, 0), Rotation(0, 90, 0)),
     Transform___init__(Vector3D(0, 0, 0), Rotation(0, 0, 0))}

\* What they are compared with: each other, None, and an object of a
\* foreign class that has the attributes of a vector.
ComparedWith ==
    Comparables \cup
    {None,
     [type |-> "carla.Vector3D", x |-> Float(0, 1), y |-> Float(0, 0),
      z |-> Float(0, 0)]}

\* s = a + b
Add(a, b) ==
    LET r == Vector3D___add__(a, b)
    IN /\ ret' = [op |-> "__add__", a |-> a, b |-> b, val |-> r.ret,
                  a_after |-> r.self, b_after |-> r.other]
       /\ UNCHANGED t

\* d = a - b
Sub(a, b) ==
    LET r == Vector3D___sub__(a, b)
    IN /\ ret' = [op |-> "__sub__", a |-> a, b |-> b, val |-> r.ret,
                  a_after |-> r.self, b_after |-> r.other]
       /\ UNCHANGED t

\* d = (a + b) - b, after s = a + b
SubBack ==
    /\ ret.op = "__add__"
    /\ LET r == Vector3D___sub__(ret.val, ret.b_after)
       IN ret' = [op |-> "(a + b) - b", a |-> ret.a, b |-> ret.b,
                  sum |-> ret.val, val |-> r.ret,
                  a_after |-> ret.a_after, b_after |-> r.other]
    /\ UNCHANGED t

\* e = (a == b); n = (a != b)
Compare(a, b) ==
    /\ ret' = [op |-> "compare", a |-> a, b |-> b,
               eq |-> Eq(a, b), ne |-> Ne(a, b)]
    /\ UNCHANGED t

InitValues ==
    /\ t = Transform___init__(Location(0, 0, 0), Rotation(0, 0, 0))
    /\ ret = [op |-> "__init__"]

NextValues ==
    \/ \E a \in Vectors, b \in Vectors : Add(a, b)
    \/ \E a \in Vectors, b \in Vectors : Sub(a, b)
    \/ SubBack
    \/ \E a \in Comparables, b \in ComparedWith : Compare(a, b)

SpecValues == InitValues /\ [][NextValues]_vars

----------------------------------------------------------------------------
(* The objects handed to the constructors.  A caller makes one Location    *)
(* and one Rotation and builds from them the Transform t, a second         *)
(* Transform u (with the same Location and no rotation) and a BoundingBox. *)
(* __init__ assigns the argument itself to self.location and               *)
(* self.rotation; only the snapshots _location and _rotation are copies.   *)
(* The attribute of every holder is therefore the caller's object, and an  *)
(* assignment to an axis of that object is seen through each of them.      *)
(* ret holds the caller's objects, u, the box and the poses before the     *)
(* last assignment.                                                        *)

\* The extent of the box that is built.
AliasExtent == Vector3D(Unit, Unit, Unit)

\* location, rotation of a Transform or a BoundingBox.
PoseOf(h) == [location |-> h.location, rotation |-> h.rotation]

\* The poses of the three holders.
Poses(self, u, box) == [t |-> PoseOf(self), u |-> PoseOf(u), box |-> PoseOf(box)]

\* location = Location(..); rotation = Rotation(..);
\* t = Transform(location, rotation); u = Transform(location);
\* box = BoundingBox(location, extent, rotation)
Construct(location, rotation) ==
    LET u == Transform___init__(location, Rotation(0, 0, 0))
        box == BoundingBox(location, AliasExtent, rotation)
    IN /\ t' = Transform___init__(location, rotation)
       /\ ret' = [op |-> "construct", location |-> location,
                  rotation |-> rotation, u |-> u, box |-> box,
                  before |-> Poses(t', u, box), val |-> None]

\* location.x = v, on the caller's object: t.location, u.location and
\* box.location are that object.
CallerSetLocationX(v) ==
    /\ ret.op # "__init__"
    /\ t' = [t EXCEPT !.location.x = v]
    /\ ret' = [ret EXCEPT !.op = "location.x = v",
                          !.location.x = v,
                          !.u.location.x = v,
                          !.box.location.x = v,
                          !.before = Poses(t, ret.u, ret.box),
                          !.val = None]

\* rotation.yaw = v, on the caller's object: t.rotation and box.rotation
\* are that object; u has a Rotation of its own.
CallerSetRotationYaw(v) ==
    /\ ret.op # "__init__"
    /\ t' = [t EXCEPT !.rotation.yaw = v]
    /\ ret' = [ret EXCEPT !.op = "rotation.yaw = v",
                          !.rotation.yaw = v,
                          !.box.rotation.yaw = v,
                          !.before = Poses(t, ret.u, ret.box),
                          !.val = None]

\* t.location.x = v: the same object again, reached through t.
HolderSetLocationX(v) ==
    /\ ret.op # "__init__"
    /\ t' = [t EXCEPT !.location.x = v]
    /\ ret' = [ret EXCEPT !.op = "t.location.x = v",
                          !.location.x = v,
                          !.u.location.x = v,
                          !.box.location.x = v,
                          !.before = Poses(t, ret.u, ret.box),
                          !.val = None]

\* m = t.get_matrix()
HolderGetMatrix ==
    /\ ret.op # "__init__"
    /\ LET g == Transform_get_matrix(t, FALSE)
       IN /\ t' = g.self
          /\ ret' = [ret EXCEPT !.op = "t.get_matrix", !.val = g.ret,
                                !.before = Poses(t, ret.u, ret.box)]

\* m = u.get_matrix()
SecondGetMatrix ==
    /\ ret.op # "__init__"
    /\ LET g == Transform_get_matrix(ret.u, FALSE)
       IN /\ t' = t
          /\ ret' = [ret EXCEPT !.op = "u.get_matrix", !.val = g.ret,
                                !.u = g.self,
                                !.before = Poses(t, ret.u, ret.box)]

InitAlias ==
    /\ t = Transform___init__(Location(0, 0, 0), Rotation(0, 0, 0))
    /\ ret = [op |-> "__init__"]

NextAlias ==
    \/ \E l \in Locations, r \in Rotations : Construct(l, r)
    \/ \E v \in Xs : CallerSetLocationX(v)
    \/ \E v \in Yaws : CallerSetRotationYaw(v)
    \/ \E v \in Xs : HolderSetLocationX(v)
    \/ HolderGetMatrix
    \/ SecondGetMatrix

SpecAlias == InitAlias /\ [][NextAlias]_vars

----------------------------------------------------------------------------
(* Vector2D.get_angle on its own *)

\* The zero vector and vectors of two lengths in the eight compass
\* directions.
CompassVectors ==
    {Vector2D(x, y) : x, y \in {-Unit, 0, Unit}}
    \cup {Vector2D(x, y) : x, y \in {-2 * Unit, 0, 2 * Unit}}

\* a = self.get_angle(other)
GetAngle(self, other) ==
    /\ ret' = [op |-> "get_angle", self |-> self, other |-> other,
               val |-> Vector2D_get_angle(self, other)]
    /\ UNCHANGED t

InitAngle ==
    /\ t = Transform___init__(Location(0, 0, 0), Rotation(0, 0, 0))
    /\ ret = [op |-> "__init__"]

NextAngle == \E self \in CompassVectors, other \in CompassVectors : GetAngle(self, other)

SpecAngle == InitAngle /\ [][NextAngle]_vars

----------------------------------------------------------------------------
(* Vector3D.rotate *)

\* self.rotate(angle), for an angle that is a multiple of 90 degrees.
Vector3D_rotate(self, angle) ==
    LET x_ == CosDeg(angle) * self.x - SinDeg(angle) * self.y
        y_ == SinDeg(angle) * self.x - CosDeg(angle) * self.y
    IN [type |-> TypeOf(self), x |-> x_, y |-> y_, z |-> self.z]

RotateAngles == {-90, 0, 90, 180}

RotateVectors ==
    {[type |-> c, x |-> x, y |-> y, z |-> z] :
        c \in {"Vector3D", "Location"}, x \in {-Unit, 0, 2 * Unit},
        y \in {-Unit, 0, 2 * Unit}, z \in {0, Unit}}

\* r = v.rotate(angle)
Rotate(v, angle) ==
    /\ ret' = [op |-> "rotate", self |-> v, angle |-> angle,
               val |-> Vector3D_rotate(v, angle)]
    /\ UNCHANGED t

\* b = r.rotate(-angle), after r = v.rotate(angle)
RotateBack ==
    /\ ret.op = "rotate"
    /\ ret' = [op |-> "rotate back", self |-> ret.self, angle |-> ret.angle,
               val |-> Vector3D_rotate(ret.val, -ret.angle)]
    /\ UNCHANGED t

InitRotate ==
    /\ t = Transform___init__(Location(0, 0, 0), Rotation(0, 0, 0))
    /\ ret = [op |-> "__init__"]

NextRotate ==
    \/ \E v \in RotateVectors, angle \in RotateAngles : Rotate(v, angle)
    \/ RotateBack

SpecRotate == InitRotate /\ [][NextRotate]_vars

----------------------------------------------------------------------------
(* Transform.get_axis_mapping *)

\* np.argmax(v): the index, from 0, of the first largest entry of v.
ArgMax(v) ==
    (CHOOSE i \in 1..Len(v) :
        /\ \A j \in 1..Len(v) : v[j] <= v[i]
        /\ \A j \in 1..(i - 1) : v[j] < v[i]) - 1

\* world_axes
WorldAxes == <<"x", "y", "z">>

\* AxisMap.Axis(world_axis, world_axis_index) for the column i (from 0) of
\* rot_mat, found without np.abs.
AxisOfColumn_signed(rot_mat, i) ==
    LET col == <<rot_mat[1][i + 1], rot_mat[2][i + 1], rot_mat[3][i + 1]>>
        world_axis_index == ArgMax(col)
    IN [axis |-> WorldAxes[world_axis_index + 1], index |-> world_axis_index]

\* AxisMap.Axis(world_axis, world_axis_index) for the column i (from 0) of
\* rot_mat.
AxisOfColumn(rot_mat, i) ==
    LET col == <<rot_mat[1][i + 1], rot_mat[2][i + 1], rot_mat[3][i + 1]>>
        world_axis_index == ArgMax(<<Abs(col[1]), Abs(col[2]), Abs(col[3])>>)
    IN [axis |-> WorldAxes[world_axis_index + 1], index |-> world_axis_index]

\* get_axis_mapping(): the object after the call and the AxisMap.
Transform_get_axis_mapping(self) ==
    LET g == Transform_get_matrix(self, FALSE)
        rot_mat == g.ret
    IN [self |-> g.self,
        ret |-> [x |-> AxisOfColumn(rot_mat, 0),
                 y |-> AxisOfColumn(rot_mat, 1),
                 z |-> AxisOfColumn(rot_mat, 2)]]

\* The rotations that are assigned: every combination of quarter turns.
AxisRotations ==
    {Rotation(pitch, yaw, roll) : pitch \in {-90, 0, 90, 180},
                                  yaw \in {-90, 0, 90, 180},
                                  roll \in {-90, 0, 90, 180}}

\* a = t.get_axis_mapping()
GetAxisMapping ==
    LET g == Transform_get_axis_mapping(t)
    IN /\ t' = g.self
       /\ ret' = [op |-> "get_axis_mapping", val |-> g.ret,
                  stale |-> Transform_is_stale(t)]

NextAxis ==
    \/ \E r \in AxisRotations : SetRotation(r)
    \/ \E v \in Yaws : SetRotationYaw(v)
    \/ GetAxisMapping

SpecAxis == Init /\ [][NextAxis]_vars

----------------------------------------------------------------------------
(* The corners of a BoundingBox *)

\* as_numpy_array(bottom_only): the rows of cords.
BoundingBox_as_numpy_array(self, bottom_only) ==
    LET e == self.extent
        cords == << <<e.x, e.y, -e.z>>, <<-e.x, e.y, -e.z>>,
                    <<-e.x, -e.y, -e.z>>, <<e.x, -e.y, -e.z>>,
                    <<e.x, e.y, e.z>>, <<-e.x, e.y, e.z>>,
                    <<-e.x, -e.y, e.z>>, <<e.x, -e.y, e.z>> >>
    IN IF bottom_only THEN SubSeq(cords, 1, 4) ELSE cords

\* transform_points(points): transform_point applied to one row after the
\* other; the object after the calls and the rows of the result.
RECURSIVE Transform_transform_points(_, _)
Transform_transform_points(self, points) ==
    IF points = <<>>
    THEN [self |-> self, ret |-> <<>>]
    ELSE LET g == Transform_transform_point(self, Head(points))
             rest == Transform_transform_points(g.self, Tail(points))
         IN [self |-> rest.self, ret |-> <<g.ret>> \o rest.ret]

\* transform_to_world_frame that leaves out the offset of the box.
BoundingBox_transform_to_world_frame_no_offset(self, transform, bottom_only) ==
    LET bb_cords == BoundingBox_as_numpy_array(self, bottom_only)
        g == Transform_transform_points(transform, bb_cords)
    IN [transform |-> g.self, ret |-> g.ret]

\* transform_to_world_frame(transform, bottom_only): the owner after the
\* call and the rows of bb_world_cords; the float32 rows take the offset
\* in place.
BoundingBox_transform_to_world_frame(self, transform, bottom_only) ==
    LET bb_cords == BoundingBox_as_numpy_array(self, bottom_only)
        g == Transform_transform_points(transform, bb_cords)
        offset == <<self.location.x, self.location.y, self.location.z>>
    IN [transform |-> g.self,
        ret |-> [i \in 1..Len(g.ret) |->
                    [k \in 1..3 |-> Float32(g.ret[i][k] + offset[k])]]]

\* c = box.as_numpy_array(bottom_only)
AsNumpyArray(box, bottom_only) ==
    /\ ret' = [op |-> "as_numpy_array", box |-> box, bottom_only |-> bottom_only,
               val |-> BoundingBox_as_numpy_array(box, bottom_only)]
    /\ UNCHANGED t

\* w = box.transform_to_world_frame(t, bottom_only)
TransformToWorldFrame(box, bottom_only) ==
    LET w == BoundingBox_transform_to_world_frame(box, t, bottom_only)
    IN /\ t' = w.transform
       /\ ret' = [op |-> "transform_to_world_frame", box |-> box,
                  bottom_only |-> bottom_only, val |-> w.ret,
                  stale |-> Transform_is_stale(t)]

\* The owner's pose changes and the corners of boxes are asked for.
NextCorners ==
    \/ \E v \in Xs : SetLocationX(v)
    \/ \E r \in Rotations : SetRotation(r)
    \/ \E box \in Boxes, bottom_only \in BOOLEAN : AsNumpyArray(box, bottom_only)
    \/ \E box \in Boxes, bottom_only \in BOOLEAN :
          TransformToWorldFrame(box, bottom_only)

SpecCorners == Init /\ [][NextCorners]_vars

----------------------------------------------------------------------------
(* The memoised inverse.  ret counts the computations of the inverse       *)
(* since the last change of the pose, and the changes of the pose since    *)
(* the last read.                                                          *)

\* The number of changes that is told apart from a larger one.
MaxChanges == 2

\* The object after the staleness block of get_matrix, before the test
\* of inverse.
Transform_after_staleness_block(self) == Transform_get_matrix(self, FALSE).self

\* The inverse is computed by this call: np.linalg.inv is reached.
Transform_computes_inverse(self, inverse) ==
    inverse /\ Transform_after_staleness_block(self)._inv_matrix = None

Min(a, b) == IF a < b THEN a ELSE b

\* A change of the pose: the computations of the inverse are counted anew.
MemoChanged ==
    ret' = [op |-> "set", inverse |-> FALSE, val |-> None, stale |-> FALSE,
            rebuilt |-> FALSE, dropped |-> FALSE, computed |-> 0,
            changes |-> Min(ret.changes + 1, MaxChanges)]

\* t.location.x = v, for a v that is not the present value
ChangeLocationX(v) ==
    /\ v # t.location.x
    /\ t' = [t EXCEPT !.location.x = v]
    /\ MemoChanged

\* t.rotation = r, for an r that is not the present value
ChangeRotation(r) ==
    /\ r # t.rotation
    /\ t' = [t EXCEPT !.rotation = r]
    /\ MemoChanged

\* m = t.get_matrix(inverse)
MemoGetMatrix(inverse) ==
    LET g == Transform_get_matrix(t, inverse)
        s1 == Transform_after_staleness_block(t)
    IN /\ t' = g.self
       /\ ret' = [op |-> "get_matrix", inverse |-> inverse, val |-> g.ret,
                  stale |-> Transform_is_stale(t),
                  rebuilt |-> s1 # t,
                  dropped |-> t._inv_matrix # None /\ s1._inv_matrix = None,
                  computed |-> Min(ret.computed
                                   + (IF Transform_computes_inverse(t, inverse)
                                      THEN 1 ELSE 0), 2),
                  changes |-> 0, after_changes |-> ret.changes]

InitMemo ==
    \E l \in Locations, r \in Rotations :
        /\ t = Transform___init__(l, r)
        /\ ret = [op |-> "__init__", inverse |-> FALSE, val |-> None,
                  stale |-> FALSE, rebuilt |-> FALSE, dropped |-> FALSE,
                  computed |-> 0, changes |-> 0]

NextMemo ==
    \/ \E v \in Xs : ChangeLocationX(v)
    \/ \E r \in Rotations : ChangeRotation(r)
    \/ \E inverse \in BOOLEAN : MemoGetMatrix(inverse)

SpecMemo == InitMemo /\ [][NextMemo]_vars

----------------------------------------------------------------------------
(* Concurrent get_matrix calls on a Transform at rest: every change of the *)
(* pose is over, and has been followed by a completed get_matrix call,     *)
(* before the next calls begin.  The staleness block is then never         *)
(* entered: the position "snap_location" that Check leads to on a stale    *)
(* object has no statement here.                                           *)

\* t.location.x = v; t.get_matrix(), by one caller while no other call is
\* in progress
Settle(v) ==
    /\ \A i \in Threads : ret.call[i].pc = "idle"
    /\ t' = Transform_get_matrix([t EXCEPT !.location.x = v], FALSE).self
    /\ UNCHANGED ret

NextQuiet ==
    \/ \E v \in Xs : Settle(v)
    \/ \E i \in Threads, inverse \in BOOLEAN : Call(i, inverse)
    \/ \E i \in Threads : Check(i)
    \/ \E i \in Threads : TestInverse(i)
    \/ \E i \in Threads : ReadMatrix(i)
    \/ \E i \in Threads : StoreInverse(i)
    \/ \E i \in Threads : Return(i)

SpecQuiet == InitThreads /\ [][NextQuiet]_vars

----------------------------------------------------------------------------
(* The world vertices of a box, handed back to contains *)

\* box.contains(w[i], t), after w = box.transform_to_world_frame(t)
ContainsVertex(i) ==
    /\ ret.op = "transform_to_world_frame"
    /\ i <= Len(ret.val)
    /\ \E c \in {BoundingBox_contains(ret.box,
                                      Location(ret.val[i][1], ret.val[i][2],
                                               ret.val[i][3]), t)} :
          /\ t' = c.transform
          /\ ret' = [op |-> "contains vertex", box |-> ret.box,
                     bottom_only |-> ret.bottom_only, vertex |-> ret.val[i],
                     val |-> c.ret]

NextVertices ==
    \/ NextCorners
    \/ \E i \in 1..8 : ContainsVertex(i)

SpecVertices == Init /\ [][NextVertices]_vars

----------------------------------------------------------------------------
(* The reads of a Transform, and the array that get_matrix returned.       *)
(* get_matrix returns the array self.matrix itself.  ret holds what a      *)
(* caller who kept that array sees in it: held is its present content,     *)
(* held_at its content when it was returned, and shared tells that         *)
(* self.matrix is still that array.                                        *)

ReadOps ==
    {"get_matrix", "get_inverse_matrix", "transform_point",
     "inverse_transform_point", "inverse_transform", "get_axis_mapping",
     "contains"}

\* The read op of self, with the point p and the box as its arguments where
\* it takes them: the object after the call and what the call returns.
ReadResult(op, self, p, box) ==
    CASE op = "get_matrix" -> Transform_get_matrix(self, FALSE)
      [] op = "get_inverse_matrix" -> Transform_get_matrix(self, TRUE)
      [] op = "transform_point" -> Transform_transform_point(self, p)
      [] op = "inverse_transform_point" -> Transform_inverse_transform_point(self, p)
      [] op = "inverse_transform" ->
            LET g == Transform_inverse_transform(self)
            IN [self |-> g.self, ret |-> g.rets]
      [] op = "get_axis_mapping" -> Transform_get_axis_mapping(self)
      [] op = "contains" ->
            LET c == BoundingBox_contains(box, Location(p[1], p[2], p[3]), self)
            IN [self |-> c.transform, ret |-> c.ret]

\* The content of the kept array after a call that left the object as
\* after, had the rebuild written into the array of self.matrix.
HeldAfter_in_place(held, shared, after) ==
    IF shared THEN after.matrix ELSE held

\* The content of the kept array after a call that left the object as
\* after: _create_matrix fills a new array (np.identity(4)) and the rebuild
\* binds self.matrix to it, so the kept array is not written.
HeldAfter(held, shared, after) == held

\* r = t.<op>(...)
Read(op, p, box) ==
    \E r \in {ReadResult(op, t, p, box)} :
        LET rebuilt == Transform_is_stale(t)
            keeps == op = "get_matrix"
        IN /\ t' = r.self
           /\ ret' = [op |-> op, before |-> PoseOf(t), stale |-> rebuilt,
                      holding |-> ret.holding \/ keeps,
                      held |-> IF keeps THEN r.ret
                               ELSE HeldAfter(ret.held, ret.shared, r.self),
                      held_at |-> IF keeps THEN r.ret ELSE ret.held_at,
                      shared |-> keeps \/ (ret.shared /\ ~ rebuilt)]

\* t.location.x = v
ReadsSetLocationX(v) ==
    /\ t' = [t EXCEPT !.location.x = v]
    /\ ret' = [ret EXCEPT !.op = "set"]

\* t.rotation.yaw = v
ReadsSetRotationYaw(v) ==
    /\ t' = [t EXCEPT !.rotation.yaw = v]
    /\ ret' = [ret EXCEPT !.op = "set"]

InitReads ==
    \E l \in Locations, r \in Rotations :
        /\ t = Transform___init__(l, r)
        /\ ret = [op |-> "__init__", before |-> PoseOf(t), stale |-> FALSE,
                  holding |-> FALSE, held |-> None, held_at |-> None,
                  shared |-> FALSE]

NextReads ==
    \/ \E v \in Xs : ReadsSetLocationX(v)
    \/ \E v \in Yaws : ReadsSetRotationYaw(v)
    \/ \E op \in ReadOps, p \in Points, box \in Boxes : Read(op, p, box)

SpecReads == InitReads /\ [][NextReads]_vars

----------------------------------------------------------------------------
(* The claims *)

\* What t.get_matrix() returns in the current state.
CurrentMatrix(self) == Transform_get_matrix(self, FALSE).ret

\* The square of the XY distance from t to the target of the last query.
QueryDistSq ==
    (ret.dst_loc.x - t.location.x) * (ret.dst_loc.x - t.location.x)
    + (ret.dst_loc.y - t.location.y) * (ret.dst_loc.y - t.location.y)

\* The target of the last query lies in the open forward half-plane of t:
\* its bearing from the yaw direction has magnitude under 90 degrees.
QueryAhead ==
    CosDeg(t.rotation.yaw) * (ret.dst_loc.x - t.location.x)
    + SinDeg(t.rotation.yaw) * (ret.dst_loc.y - t.location.y) > 0

\* C1: for a Transform built from a location and a rotation, get_matrix()
\* returns the closed-form matrix of the current location and rotation,
\* after any mutations and earlier get_matrix calls.
C1_MatrixOfCurrentPose ==
    (ret.op = "get_matrix" /\ ~ret.inverse)
        => ret.val = Transform__create_matrix(t.location, t.rotation)

\* A get_matrix() call that found the pose changed since the last read and
\* returned a matrix other than that of the default pose.
C1_Witness ==
    /\ ret.op = "get_matrix"
    /\ ~ret.inverse
    /\ ret.stale
    /\ t.location.x = 3 * Unit
    /\ t.rotation.yaw = -90

\* C2: get_matrix(inverse=True) returns the inverse of what get_matrix()
\* returns in the same state; an inverse cached before a mutation of the
\* pose is not returned after it.
C2_InverseOfCurrentMatrix ==
    (ret.op = "get_matrix" /\ ret.inverse)
        => /\ ret.val # None
           /\ MatMul(ret.val, CurrentMatrix(t)) = Identity4
           /\ MatMul(CurrentMatrix(t), ret.val) = Identity4

\* A get_matrix(inverse=True) call made with an inverse in the cache and
\* the pose changed since it was computed.
C2_Witness ==
    /\ ret.op = "get_matrix"
    /\ ret.inverse
    /\ ret.stale
    /\ ret.had_inverse

\* C3: t.inverse_transform_point(t.transform_point(p)) is p, also when the
\* pose was mutated before the two calls.
C3_RoundTrip ==
    (ret.op = "inverse_transform_point" /\ ret.chained) => ret.val = ret.orig

\* A round trip on a Transform with a rotation and a translation whose
\* pose had been mutated and not read before the two calls.
C3_Witness ==
    /\ ret.op = "inverse_transform_point"
    /\ ret.chained
    /\ ret.stale
    /\ t.rotation.yaw = -90
    /\ t.location.x = 3 * Unit
    /\ ret.val = <<-Unit, 2 * Unit, 5 * Unit>>

\* C4: with zero rotation transform_point adds the location to the point
\* and inverse_transform_point subtracts it; at location (3,0,0) the point
\* (10,0,0) goes to (13,0,0) and comes from (7,0,0).
C4_IdentityRotationTranslates ==
    t.rotation = Rotation(0, 0, 0)
        => /\ ret.op = "transform_point"
                => ret.val = <<ret.arg[1] + t.location.x, ret.arg[2] + t.location.y,
                               ret.arg[3] + t.location.z>>
           /\ ret.op = "inverse_transform_point"
                => ret.val = <<ret.arg[1] - t.location.x, ret.arg[2] - t.location.y,
                               ret.arg[3] - t.location.z>>
           /\ t.location = Location(3 * Unit, 0, 0)
                => /\ Transform_transform_point(t, <<10 * Unit, 0, 0>>).ret
                          = <<13 * Unit, 0, 0>>
                   /\ Transform_inverse_transform_point(t, <<10 * Unit, 0, 0>>).ret
                          = <<7 * Unit, 0, 0>>

\* The Transform at (3,0,0) with zero rotation has just mapped (10,0,0)
\* to (13,0,0).
C4_Witness ==
    /\ ret.op = "transform_point"
    /\ t.rotation = Rotation(0, 0, 0)
    /\ t.location = Location(3 * Unit, 0, 0)
    /\ ret.arg = <<10 * Unit, 0, 0>>
    /\ ret.val = <<13 * Unit, 0, 0>>

\* C5: with the distance between the floor and max_distance,
\* is_within_distance_ahead is true exactly when the target lies in the
\* forward half-plane.
C5_AheadIffForward ==
    (/\ ret.op = "is_within_distance_ahead"
     /\ QueryDistSq >= DistFloor * DistFloor
     /\ QueryDistSq <= ret.max_distance * ret.max_distance)
        => (ret.val <=> QueryAhead)

\* C6: is_within_distance_ahead is true whenever the distance is below
\* the floor, whatever the bearing and max_distance.
C6_BelowFloorIsTrue ==
    (ret.op = "is_within_distance_ahead" /\ QueryDistSq < DistFloor * DistFloor)
        => ret.val

\* A target 0.0005 behind the transform, asked with max_distance 0.
C6_Witness ==
    /\ ret.op = "is_within_distance_ahead"
    /\ QueryDistSq = 1
    /\ ret.max_distance = 0
    /\ ~QueryAhead
    /\ t.rotation.yaw = 0
    /\ ret.dst_loc.x < t.location.x

\* C7: is_within_distance_ahead is false whenever the distance is at
\* least the floor and greater than max_distance, whatever the bearing.
C7_BeyondMaxIsFalse ==
    (/\ ret.op = "is_within_distance_ahead"
     /\ QueryDistSq >= DistFloor * DistFloor
     /\ QueryDistSq > ret.max_distance * ret.max_distance)
        => ~ret.val

\* A target 5 units straight ahead, asked with max_distance 1.
C7_Witness ==
    /\ ret.op = "is_within_distance_ahead"
    /\ QueryAhead
    /\ t.rotation.yaw = 0
    /\ ret.dst_loc.y = t.location.y
    /\ QueryDistSq = (5 * Unit) * (5 * Unit)
    /\ ret.max_distance = Unit

\* C8: t * other has the product of the matrices of the current poses of
\* t and other, so that it maps p to t.transform_point(other.transform_point(p)),
\* also when a pose was mutated after the last get_matrix call.
C8_ProductOfCurrentMatrices ==
    ret.op = "__mul__"
        => /\ ret.val.matrix = MatMul(CurrentMatrix(t), CurrentMatrix(ret.other))
           /\ \A p \in Points :
                Transform_transform_point(ret.val, p).ret
                  = Transform_transform_point(t,
                        Transform_transform_point(ret.other, p).ret).ret

\* C9: t.inverse_transform() is a new Transform whose matrix is the inverse
\* of the matrix of t's current pose, it undoes t.transform_point, and the
\* location and rotation of t are unchanged.
C9_InverseTransform ==
    ret.op = "inverse_transform"
        => /\ CurrentMatrix(ret.val) = ret.val.matrix
           /\ MatMul(ret.val.matrix, CurrentMatrix(t)) = Identity4
           /\ MatMul(CurrentMatrix(t), ret.val.matrix) = Identity4
           /\ \A p \in Points :
                Transform_transform_point(ret.val, Transform_transform_point(t, p).ret).ret = p
           /\ t.location = ret.before.location
           /\ t.rotation = ret.before.rotation

\* inverse_transform() called on a Transform with a rotation and a
\* translation whose pose had been mutated and not read.
C9_Witness ==
    /\ ret.op = "inverse_transform"
    /\ Transform_is_stale(ret.before)
    /\ t.rotation.yaw = -90
    /\ t.location.x = 3 * Unit
    /\ t.location.z = 2 * Unit

\* C10: a Transform built from the closed-form matrix M of (L, R) has
\* location L and a rotation that regenerates M, so that a change of its
\* location alone changes only the translation column of get_matrix().
C10_RecoveredRotationRegenerates ==
    ret.op = "Transform(matrix)"
        => /\ ret.val.location = ret.location
           /\ Transform__create_matrix(ret.val.location, ret.val.rotation) = ret.val.matrix
           /\ \A l \in Locations :
                CurrentMatrix([ret.val EXCEPT !.location = l])
                  = Transform__create_matrix(l, ret.rotation)

\* Column c (1, 2 or 3) of the rotation block of the closed-form matrix of
\* the rotation of t, as a Vector3D.
MatrixColumn(c) ==
    LET m == Transform__create_matrix(t.location, t.rotation)
    IN Vector3D(m[1][c], m[2][c], m[3][c])

\* C11: get_forward_vector, get_right_vector and get_up_vector of a
\* Rotation are columns 0, 1 and 2 (rows 0..2) of the matrix that
\* Transform._create_matrix builds from it, component by component.
C11_BasisIsMatrixColumns ==
    /\ ret.op = "get_forward_vector" => ret.val = MatrixColumn(1)
    /\ ret.op = "get_right_vector" => ret.val = MatrixColumn(2)
    /\ ret.op = "get_up_vector" => ret.val = MatrixColumn(3)

\* The right vector of a rotation with pitch 0 and roll 90, whose z
\* component is -cos(pitch) * sin(roll) = -1.
C11_Witness ==
    /\ ret.op = "get_right_vector"
    /\ t.rotation = Rotation(0, 270, 90)
    /\ ret.val = Vector3D(0, 0, -1)

\* The stored components are all 0.
IsSentinel(q) ==
    q.w = Num(0, 0) /\ q.x = Num(0, 0) /\ q.y = Num(0, 0) /\ q.z = Num(0, 0)

\* The stored components have norm 1.
IsUnit(q) == NormSq(q.w, q.x, q.y, q.z) = Num(QDen * QDen, 0)

\* The arguments <<w, x, y, z, exp>> of the constructor are all 0 or of
\* the order of 1e-60.
TinyArgs(a) ==
    \/ a[1] = Num(0, 0) /\ a[2] = Num(0, 0) /\ a[3] = Num(0, 0) /\ a[4] = Num(0, 0)
    \/ a[5] = -60

\* C12: every Quaternion that the constructor, from_rotation,
\* from_angular_velocity or a product returns is the sentinel (0,0,0,0)
\* or a unit quaternion; the constructor gives the sentinel when the norm
\* of its arguments is below 1e-50 and otherwise its arguments divided by
\* their norm.
C12_SentinelOrUnit ==
    ReturnedQuaternion
        => /\ IsSentinel(ret.val) \/ IsUnit(ret.val)
           /\ ret.op = "Quaternion"
                => IF TinyArgs(ret.args)
                   THEN IsSentinel(ret.val)
                   ELSE LET norm == Norm(ret.args[1], ret.args[2], ret.args[3], ret.args[4])
                            scaled(c, a) == NumTimes(c, norm) = NumScale(QDen, a)
                        IN /\ IsUnit(ret.val)
                           /\ scaled(ret.val.w, ret.args[1])
                           /\ scaled(ret.val.x, ret.args[2])
                           /\ scaled(ret.val.y, ret.args[3])
                           /\ scaled(ret.val.z, ret.args[4])

\* Quaternion(1e-60, 0, 0, 0) gave the sentinel.
C12_Witness ==
    /\ ret.op = "Quaternion"
    /\ ret.args = <<Num(2, 0), Num(0, 0), Num(0, 0), Num(0, 0), -60>>
    /\ IsSentinel(ret.val)

\* The last call was as_rotation() on the quaternion that from_rotation
\* made of a rotation whose pitch lies strictly between -90 and 90.
RoundTripRegular ==
    /\ ret.op = "as_rotation"
    /\ ret.converted
    /\ ret.source.pitch > -90
    /\ ret.source.pitch < 90

RotationBlock(r) ==
    LET m == Transform__create_matrix(Location(0, 0, 0), r)
    IN <<m[1], m[2], m[3]>>

\* C14: as_rotation returns pitch -90 when z*x - w*y is below -0.4999995,
\* pitch 90 when it is above 0.4999995 and the arcsine of twice it
\* otherwise; it returns a Rotation for the zero sentinel; a rotation of
\* pitch 90 or -90 converted by from_rotation comes back with that pitch,
\* and with a yaw and a roll that give the same rotation matrix.
C14_ThreeBranches ==
    ret.op = "as_rotation"
        => LET singularity == Quaternion_singularity_test(ret.q)
               limit == SingularityThreshold * QDen * QDen
           IN /\ NumApprox(singularity) < -limit => ret.val.pitch = -90
              /\ NumApprox(singularity) > limit => ret.val.pitch = 90
              /\ (NumApprox(singularity) >= -limit /\ NumApprox(singularity) <= limit)
                    => ret.val.pitch = ArcsinDeg(NumScale(2, singularity))
              /\ IsSentinel(ret.q) => ret.val = Rotation(0, 0, 0)
              /\ (ret.converted /\ ret.source.pitch \in {-90, 90})
                    => /\ ret.val.pitch = ret.source.pitch
                       /\ RotationBlock(ret.val) = RotationBlock(ret.source)

\* A rotation of pitch -90 with a yaw and a roll came back from its
\* quaternion with pitch -90.
C14_Witness ==
    /\ ret.op = "as_rotation"
    /\ ret.converted
    /\ ret.source = Rotation(-90, 90, 270)
    /\ ret.val.pitch = -90

\* The components of a quaternion in the order 1, i, j, k.
QuatComponents(q) == <<q.w, q.x, q.y, q.z>>

\* The product of two of the basis elements 1, i, j, k (numbered 1..4) by
\* the rules i*i = j*j = k*k = -1, i*j = k, j*k = i, k*i = j: the sign and
\* the basis element of e_m * e_n.
BasisProduct(m, n) ==
    CASE m = 1 -> [sign |-> 1, at |-> n]
      [] n = 1 -> [sign |-> 1, at |-> m]
      [] m = n -> [sign |-> -1, at |-> 1]
      [] m = 2 /\ n = 3 -> [sign |-> 1, at |-> 4]
      [] m = 3 /\ n = 4 -> [sign |-> 1, at |-> 2]
      [] m = 4 /\ n = 2 -> [sign |-> 1, at |-> 3]
      [] m = 3 /\ n = 2 -> [sign |-> -1, at |-> 4]
      [] m = 4 /\ n = 3 -> [sign |-> -1, at |-> 2]
      [] m = 2 /\ n = 4 -> [sign |-> -1, at |-> 3]

\* Component c of the Hamilton product a (x) b, over QDen * QDen: the sum
\* of sign * a[m] * b[n] over the basis products that fall on c.
HamiltonComponent(a, b, c) ==
    LET term(m, n) ==
            IF BasisProduct(m, n).at = c
            THEN NumScale(BasisProduct(m, n).sign,
                          NumTimes(QuatComponents(a)[m], QuatComponents(b)[n]))
            ELSE Num(0, 0)
        row(m) == NumAdd(NumAdd(term(m, 1), term(m, 2)), NumAdd(term(m, 3), term(m, 4)))
    IN NumAdd(NumAdd(row(1), row(2)), NumAdd(row(3), row(4)))

\* The quaternions i and j.
QuatI == Quaternion___init__(Num(0, 0), Num(2, 0), Num(0, 0), Num(0, 0), 0)

QuatJ == Quaternion___init__(Num(0, 0), Num(0, 0), Num(2, 0), Num(0, 0), 0)

\* C16: a * b is the Hamilton product a (x) b with a on the left; the
\* products in the model are of unit quaternions or the sentinel, whose
\* product the constructor stores as it is.  (1,0,0,0) is an identity on
\* both sides, the product is associative, and i * j is not j * i.
C16_HamiltonProduct ==
    ret.op = "Quaternion.__mul__"
        => /\ \A c \in 1..4 :
                NumScale(QDen, QuatComponents(ret.val)[c])
                  = HamiltonComponent(ret.left, ret.right, c)
           /\ Quaternion___mul__(ret.val, QuatIdentity) = ret.val
           /\ Quaternion___mul__(QuatIdentity, ret.val) = ret.val
           /\ \A c \in QuatOthers :
                Quaternion___mul__(ret.val, c)
                  = Quaternion___mul__(ret.left, Quaternion___mul__(ret.right, c))
           /\ (ret.left = QuatJ /\ ret.right = QuatI)
                => ret.val # Quaternion___mul__(ret.right, ret.left)

\* j * i was computed: it is -k, and i * j is k.
C16_Witness ==
    /\ ret.op = "Quaternion.__mul__"
    /\ ret.left = QuatJ
    /\ ret.right = QuatI
    /\ QuatComponents(ret.val) = <<Num(0, 0), Num(0, 0), Num(0, 0), Num(-2, 0)>>
    /\ QuatComponents(Quaternion___mul__(ret.right, ret.left))
         = <<Num(0, 0), Num(0, 0), Num(0, 0), Num(2, 0)>>

\* The coordinates of the world point of the last contains call in the
\* local frame of t: the components of (point - location) along the
\* forward, right and up vectors of the rotation of t.
LocalCoordinates ==
    LET d == <<ret.world_point.x - t.location.x, ret.world_point.y - t.location.y,
               ret.world_point.z - t.location.z>>
        along(v) == d[1] * v.x + d[2] * v.y + d[3] * v.z
    IN <<along(Rotation_get_forward_vector(t.rotation)),
         along(Rotation_get_right_vector(t.rotation)),
         along(Rotation_get_up_vector(t.rotation))>>

\* The world point two units from t along a vector of its local basis.
TwoUnitsAlong(v) ==
    Location(t.location.x + 2 * Unit * v.x, t.location.y + 2 * Unit * v.y,
             t.location.z + 2 * Unit * v.z)

\* C15: contains is true exactly when the local coordinates of the point,
\* less the offset of the box, are within the extents, boundary included;
\* the rotation of the box plays no part; the unit box contains the
\* owner's location and no point 2 units along a local axis.
C15_ContainsIsLocalExtentTest ==
    ret.op = "contains"
        => /\ ret.val <=>
                /\ Abs(LocalCoordinates[1] - ret.box.location.x) <= ret.box.extent.x
                /\ Abs(LocalCoordinates[2] - ret.box.location.y) <= ret.box.extent.y
                /\ Abs(LocalCoordinates[3] - ret.box.location.z) <= ret.box.extent.z
           /\ \A r \in Rotations :
                BoundingBox_contains([ret.box EXCEPT !.rotation = r],
                                     ret.world_point, t).ret = ret.val
           /\ ret.box = UnitBox
                => /\ BoundingBox_contains(ret.box, t.location, t).ret
                   /\ ~BoundingBox_contains(ret.box,
                          TwoUnitsAlong(Rotation_get_forward_vector(t.rotation)), t).ret
                   /\ ~BoundingBox_contains(ret.box,
                          TwoUnitsAlong(Rotation_get_right_vector(t.rotation)), t).ret
                   /\ ~BoundingBox_contains(ret.box,
                          TwoUnitsAlong(Rotation_get_up_vector(t.rotation)), t).ret
                   /\ ret.world_point = t.location => ret.val
                   /\ ret.world_point = TwoUnitsAlong(Rotation_get_up_vector(t.rotation))
                        => ~ret.val

\* A point on the boundary of the box with an offset was found contained,
\* by an owner with a rotation whose pose had changed since its last read.
C15_Witness ==
    /\ ret.op = "contains"
    /\ ret.stale
    /\ ret.box # UnitBox
    /\ t.rotation = Rotation(0, -90, 90)
    /\ LocalCoordinates[1] - ret.box.location.x = -Unit
    /\ ret.val

\* C17: get_matrix calls that overlap on one Transform can return a stale
\* matrix, a stale inverse or no inverse at all (C17_Witness is a run in
\* which all three have happened); nothing but the overlap causes it: as
\* long as no two calls have been in progress at the same time, every
\* call has returned the matrix, or the inverse, of the current pose.
C17_WrongOnlyAfterOverlap ==
    ~ret.raced
        => /\ ret.seen = {}
           /\ \A i \in Threads : ret.call[i].kind \in {"none", "right"}

\* Overlapping calls have, in one run, returned a stale matrix, a stale
\* inverse and no inverse at all.
C17_Witness ==
    /\ ret.raced
    /\ ret.seen = {"stale matrix", "stale inverse", "no inverse"}
    /\ \E i \in Threads : ret.call[i].kind = "no inverse" /\ ret.call[i].val = None

\* C18: building a Transform from a 4x4 matrix, orthonormal or not, passes
\* only values within [-1, 1] to asin and acos, also where the recovered
\* pitch is 90 or -90 degrees, and gives a Transform that holds the matrix,
\* its translation column as location and a rotation within the ranges of
\* asin and acos.
C18_FromAnyMatrix ==
    ret.op = "Transform(any matrix)"
        => /\ \A a \in AsinAcosArguments(ret.matrix) :
                a[1] \in -1..1 /\ a[2] \in -1..1 /\ a[3] \in -1..1
           /\ t.matrix = ret.matrix
           /\ t.location = Location(ret.matrix[1][4], ret.matrix[2][4], ret.matrix[3][4])
           /\ t.rotation.pitch \in -90..90
           /\ t.rotation.yaw \in 0..180
           /\ t.rotation.roll \in -90..90
           /\ t._inv_matrix = None
           /\ ~Transform_is_stale(t)

\* A Transform built from a matrix that is not orthonormal, whose first
\* column has z = -2 (pitch -90, where the recovery divides by the cosine
\* of the pitch) and whose entry [2, 1] is -4.
C18_Witness ==
    /\ ret.op = "Transform(any matrix)"
    /\ ret.matrix[3][1] = -2
    /\ ret.matrix[1][1] = -3
    /\ ret.matrix[3][2] = -4
    /\ t.rotation = Rotation(-90, 180, 90)

\* The exact sum a + b, component by component, is a float64.
SumIsExact(a, b) ==
    /\ Representable(Float(a.x.hi + b.x.hi, a.x.lo + b.x.lo))
    /\ Representable(Float(a.y.hi + b.y.hi, a.y.lo + b.y.lo))
    /\ Representable(Float(a.z.hi + b.z.hi, a.z.lo + b.z.lo))

\* p and q differ by less than 2^7, the bound of the low parts: less than
\* half the spacing of the floats around a nonzero multiple of 2^60.
WithinRounding(p, q) == p.hi = q.hi

\* + and - return a new vector of a's type and leave both operands as
\* they were.
NewVectorOfOperandType ==
    ret.op \in {"__add__", "__sub__", "(a + b) - b"} =>
        /\ TypeOf(ret.val) = TypeOf(ret.a)
        /\ ret.a_after = ret.a
        /\ ret.b_after = ret.b

ComponentsOf(v) ==
    CASE TypeOf(v) = "Vector2D" -> <<v.x, v.y>>
      [] TypeOf(v) \in {"Vector3D", "Location"} -> <<v.x, v.y, v.z>>
      [] TypeOf(v) = "Rotation" -> <<v.pitch, v.yaw, v.roll>>
      [] TypeOf(v) = "Transform" -> <<v.location, v.rotation>>

\* C20: for Vector2D, Vector3D/Location, Rotation and Transform, a == b and
\* a != b are both answered (nothing is raised) and are opposite; when b's
\* type is not a's, Location against Vector3D with the same components
\* included, == is false and != is true; when the types are the same, == is
\* true exactly when every component is equal.
C20_EqAndNeOpposite ==
    ret.op = "compare" =>
        /\ ret.eq \in BOOLEAN
        /\ ret.ne \in BOOLEAN
        /\ ret.eq = ~ ret.ne
        /\ TypeOf(ret.b) # TypeOf(ret.a) => ~ ret.eq /\ ret.ne
        /\ TypeOf(ret.b) = TypeOf(ret.a) =>
            (ret.eq <=> ComponentsOf(ret.a) = ComponentsOf(ret.b))

\* A Location has been compared with a Vector3D of the same components.
C20_Witness ==
    /\ ret.op = "compare"
    /\ TypeOf(ret.a) = "Location"
    /\ TypeOf(ret.b) = "Vector3D"
    /\ ComponentsOf(ret.a) = ComponentsOf(ret.b)
    /\ ~ ret.eq
    /\ ret.ne

\* C21: the values handed to a constructor are copied: an assignment to the
\* caller's Location or Rotation after the construction leaves the pose of
\* the two Transforms and of the box as it was, and an assignment through
\* one Transform leaves the pose of the other Transform and of the box as
\* it was.
C21_CopiedNotAliased ==
    /\ ret.op \in {"location.x = v", "rotation.yaw = v"} =>
          Poses(t, ret.u, ret.box) = ret.before
    /\ ret.op = "t.location.x = v" =>
          /\ PoseOf(ret.u) = ret.before.u
          /\ PoseOf(ret.box) = ret.before.box

\* C22: get_angle returns atan2(self) - atan2(other) brought into the
\* half-open interval (-pi, pi]: the result differs from the difference
\* by a whole number of turns, is strictly greater than -pi and is at most
\* pi.
C22_AngleInHalfOpenInterval ==
    ret.op = "get_angle" =>
        /\ (ret.val - (Atan2(ret.self.y, ret.self.x)
                       - Atan2(ret.other.y, ret.other.x))) % (2 * Pi) = 0
        /\ ret.val > -Pi
        /\ ret.val <= Pi

\* C23: rotate(angle) returns the vector turned in the XY plane by the
\* signed angle, x' = cos * x - sin * y and y' = sin * x + cos * y, with z
\* passed through; rotate(0) returns a vector equal to the original, and
\* rotate(a) followed by rotate(-a) returns the original.
C23_RotateIsPlaneRotation ==
    /\ ret.op = "rotate" =>
          /\ ret.val.x = CosDeg(ret.angle) * ret.self.x
                         - SinDeg(ret.angle) * ret.self.y
          /\ ret.val.y = SinDeg(ret.angle) * ret.self.x
                         + CosDeg(ret.angle) * ret.self.y
          /\ ret.val.z = ret.self.z
          /\ ret.angle = 0 => Vector3D___eq__(ret.val, ret.self)
    /\ ret.op = "rotate back" => Vector3D___eq__(ret.val, ret.self)

\* The world axis, as an index from 0, whose entry in column i (from 0) of
\* the rotation block of m is larger in magnitude than the other two.
LargestInColumn(m, i) ==
    CHOOSE k \in 0..2 :
        \A j \in 0..2 : j # k => Abs(m[j + 1][i + 1]) < Abs(m[k + 1][i + 1])

\* C24: get_axis_mapping reports, for each sensor axis, the world axis with
\* the largest-magnitude entry in the corresponding column of the rotation
\* block of the matrix of the current pose, also when the cached matrix was
\* stale; for rotations by multiples of 90 degrees the mapping is a
\* permutation of x, y, z, and for the identity rotation it is x->x, y->y,
\* z->z.
C24_AxisMapping ==
    ret.op = "get_axis_mapping" =>
        LET m == Transform__create_matrix(t.location, t.rotation)
            a == <<ret.val.x, ret.val.y, ret.val.z>>
        IN /\ \A i \in 0..2 :
                /\ a[i + 1].index = LargestInColumn(m, i)
                /\ a[i + 1].axis = WorldAxes[a[i + 1].index + 1]
           /\ {a[1].axis, a[2].axis, a[3].axis} = {"x", "y", "z"}
           /\ t.rotation = Rotation(0, 0, 0) =>
                /\ a[1].axis = "x"
                /\ a[2].axis = "y"
                /\ a[3].axis = "z"

\* A mapping read from a stale Transform whose rotation had been changed
\* to a pitch of 90 degrees: sensor x is world z, sensor z is world x.
C24_Witness ==
    /\ ret.op = "get_axis_mapping"
    /\ ret.stale
    /\ t.rotation = Rotation(90, 0, 0)
    /\ ret.val.x.axis = "z"
    /\ ret.val.y.axis = "y"
    /\ ret.val.z.axis = "x"

\* The rows of a sequence, as a set.
RowsOf(s) == {s[i] : i \in 1..Len(s)}

\* C25: as_numpy_array returns the eight distinct sign combinations
\* (+-extent.x, +-extent.y, +-extent.z) of the half-extents, with
\* bottom_only the four of them with z = -extent.z; transform_to_world_frame
\* returns as many vertices, the i-th being the i-th local corner mapped by
\* the matrix of the owner's current pose, with the offset of the box added
\* to the mapped corner.
C25_CornersOfTheBox ==
    LET e == ret.box.extent
        m == Transform__create_matrix(t.location, t.rotation)
        cords == BoundingBox_as_numpy_array(ret.box, ret.bottom_only)
    IN /\ ret.op = "as_numpy_array" =>
            /\ Len(ret.val) = IF ret.bottom_only THEN 4 ELSE 8
            /\ Cardinality(RowsOf(ret.val)) = Len(ret.val)
            /\ RowsOf(ret.val) =
                  {<<sx * e.x, sy * e.y, sz * e.z>> :
                      sx \in {-1, 1}, sy \in {-1, 1},
                      sz \in IF ret.bottom_only THEN {-1} ELSE {-1, 1}}
       /\ ret.op = "transform_to_world_frame" =>
            /\ Len(ret.val) = Len(cords)
            /\ \A i \in 1..Len(cords) :
                  LET mapped == Transform___transform(cords[i], m)
                  IN /\ ret.val[i][1] = Float32(mapped[1] + ret.box.location.x)
                     /\ ret.val[i][2] = Float32(mapped[2] + ret.box.location.y)
                     /\ ret.val[i][3] = Float32(mapped[3] + ret.box.location.z)

\* The eight world vertices of the box with an offset, asked of an owner
\* whose yaw had been changed to -90 degrees and not read since: the first
\* local corner (1, 2, -0.5) is mapped to (2, -2, 1.5) and the offset
\* (1, 0, -1) is added to it.
C25_Witness ==
    /\ ret.op = "transform_to_world_frame"
    /\ ret.stale
    /\ ~ ret.bottom_only
    /\ Len(ret.val) = 8
    /\ ret.box.location = Location(Unit, 0, -Unit)
    /\ t.location = Location(0, -Unit, 2 * Unit)
    /\ t.rotation = Rotation(0, -90, 0)
    /\ ret.val[1] = <<3 * Unit, -2 * Unit, Unit \div 2>>

\* C26: between two changes of the pose the inverse is computed at most
\* once; a get_matrix call that finds location and rotation equal to the
\* snapshot neither rebuilds the matrix nor drops the cached inverse; and
\* when the pose was changed and changed back to the snapshot before the
\* read, the cached matrix and the cached inverse are those of the pose.
C26_MemoisedPerPose ==
    /\ ret.computed <= 1
    /\ (ret.op = "get_matrix" /\ ~ ret.stale) =>
          /\ ~ ret.rebuilt
          /\ ~ ret.dropped
    /\ (ret.op = "get_matrix" /\ ~ ret.stale /\ ret.after_changes >= 2) =>
          /\ t.matrix = Transform__create_matrix(t.location, t.rotation)
          /\ t._inv_matrix # None =>
                MatMul(t._inv_matrix, t.matrix) = Identity4
          /\ ret.val = IF ret.inverse THEN t._inv_matrix ELSE t.matrix

\* The pose was changed and changed back after the inverse had been
\* cached, and get_matrix(inverse=True) then returned the cached inverse
\* without computing one.
C26_Witness ==
    /\ ret.op = "get_matrix"
    /\ ret.inverse
    /\ ~ ret.stale
    /\ ret.after_changes >= 2
    /\ ret.computed = 0
    /\ ret.val # None
    /\ MatMul(ret.val, Transform__create_matrix(t.location, t.rotation)) = Identity4

\* C27: after any sequence of rotation mutations and get_matrix calls, the
\* attribute forward_vector is the first column (rows 0..2) of the matrix
\* that get_matrix has just returned, and is what get_forward_vector()
\* returns.
C27_ForwardVectorIsFirstColumn ==
    (ret.op = "get_matrix" /\ ~ ret.inverse) =>
        /\ t.forward_vector = Vector3D(ret.val[1][1], ret.val[2][1], ret.val[3][1])
        /\ Vector3D___eq__(t.forward_vector,
                           Rotation_get_forward_vector(t.rotation))

\* C28: while the pose equals the snapshot, concurrent get_matrix() and
\* get_matrix(inverse=True) calls never enter the staleness block, and
\* under every interleaving each call returns the matrix, respectively a
\* present inverse, of the current pose (kind is "right", as found when the
\* call returned).
C28_QuietCallsAreRight ==
    \A i \in Threads :
        /\ ret.call[i].pc # "snap_location"
        /\ ret.call[i].kind \in {"none", "right"}
        /\ ret.call[i].kind = "right" => ret.call[i].val # None

\* Two get_matrix(inverse=True) calls have overlapped on a Transform with
\* no cached inverse, each has read the matrix to invert it, and the first
\* to finish has returned the inverse of the current pose.
C28_Witness ==
    /\ ret.raced
    /\ ret.call[1].pc = "idle"
    /\ ret.call[1].inverse
    /\ ret.call[1].kind = "right"
    /\ ret.call[1].val = MatInv(Transform__create_matrix(t.location, t.rotation))
    /\ ret.call[2].pc = "store_inverse"
    /\ t.location.x = 3 * Unit

\* C29: for every box, whatever its offset, and every owner, whatever its
\* location and rotation, each vertex that transform_to_world_frame(t)
\* returns is reported as contained by contains(vertex, t).
C29_VerticesAreContained ==
    ret.op = "contains vertex" => ret.val

====
